---- MODULE Spec2Model ----
(***************************************************************************)
(* Model of the note-editing handlers of obsidian-mcp: patch-content with  *)
(* its anchor resolvers (heading, text_match, block, frontmatter, line),   *)
(* the unified-diff applier, create-note, move-note, append-content,       *)
(* log-journal-entry, and the vault the handlers read and write.           *)
(*                                                                         *)
(* A string is a sequence of one-character strings; "\n" is the line       *)
(* separator.  A JavaScript array of strings is a sequence of strings.     *)
(***************************************************************************)
EXTENDS Integers, Sequences, FiniteSets, TLC

VARIABLES files, config, last, calls

vars == <<files, config, last, calls>>

----------------------------------------------------------------------------
(* Strings                                                                 *)

NL == "\n"

\* the characters matched by \s in a JavaScript regular expression
IsSpace(c) == c \in {" ", "\t", NL}

\* case folding of the 'i' flag, over the letters the model uses
Lower(c) == CASE c = "A" -> "a" [] c = "B" -> "b" [] OTHER -> c

AllSpace(s, from, to) == \A k \in from..to : IsSpace(s[k])

\* the pieces of s from position k on, the piece being read starting at start
RECURSIVE SplitFrom(_, _, _)
SplitFrom(s, k, start) ==
  LET breaks == {j \in k..Len(s) : s[j] = NL}
      next == CHOOSE j \in breaks : \A i \in breaks : j <= i
  IN IF breaks = {} THEN <<SubSeq(s, start, Len(s))>>
     ELSE <<SubSeq(s, start, next - 1)>> \o SplitFrom(s, next + 1, next + 1)

\* String.prototype.split('\n')
Split(s) == SplitFrom(s, 1, 1)

\* Array.prototype.join('\n')
RECURSIVE Join(_)
Join(arr) ==
  IF Len(arr) = 0 THEN <<>>
  ELSE IF Len(arr) = 1 THEN arr[1]
  ELSE arr[1] \o <<NL>> \o Join(Tail(arr))

\* String.prototype.trim()
RECURSIVE Trim(_)
Trim(s) ==
  IF Len(s) = 0 THEN s
  ELSE IF IsSpace(s[1]) THEN Trim(Tail(s))
  ELSE IF IsSpace(s[Len(s)]) THEN Trim(SubSeq(s, 1, Len(s) - 1))
  ELSE s

\* Array.prototype.slice(from, to), 0-based, to exclusive: a negative index
\* counts from the end, and both are clipped to the array
Slice(arr, from, to) ==
  LET len == Len(arr)
      first == IF from < 0 THEN (IF len + from > 0 THEN len + from ELSE 0)
               ELSE (IF from < len THEN from ELSE len)
      final == IF to < 0 THEN (IF len + to > 0 THEN len + to ELSE 0)
               ELSE (IF to < len THEN to ELSE len)
  IN SubSeq(arr, first + 1, final)

\* Array.prototype.splice(start, deleteCount, item): ONE element is inserted,
\* whatever the number of lines the item holds
Splice(arr, start, deleteCount, item) ==
  SubSeq(arr, 1, start) \o <<item>> \o SubSeq(arr, start + deleteCount + 1, Len(arr))

Max(a, b) == IF a > b THEN a ELSE b
Min(a, b) == IF a < b THEN a ELSE b

----------------------------------------------------------------------------
(* Regular expressions of the handlers.  escapeRegExp makes the anchor     *)
(* value match literally, so each test compares it character by character. *)

\* new RegExp(`^#+\\s+${escapeRegExp(heading)}\\s*$`, 'i').test(line)
headingRegex(heading, line) ==
  \E h \in 1..Len(line) : \E w \in 1..Len(line) :
     /\ h + w + Len(heading) <= Len(line)
     /\ \A k \in 1..h : line[k] = "#"
     /\ AllSpace(line, h + 1, h + w)
     /\ \A k \in 1..Len(heading) : Lower(line[h + w + k]) = Lower(heading[k])
     /\ AllSpace(line, h + w + Len(heading) + 1, Len(line))

\* /^#+\s+/.test(line)
anyHeadingRegex(line) ==
  \E h \in 1..Len(line) :
     /\ h + 1 <= Len(line)
     /\ \A k \in 1..h : line[k] = "#"
     /\ IsSpace(line[h + 1])

\* new RegExp(`\\^${escapeRegExp(blockId)}\\s*$`).test(line)
blockRegex(blockId, line) ==
  \E p \in 1..Len(line) :
     /\ line[p] = "^"
     /\ p + Len(blockId) <= Len(line)
     /\ \A k \in 1..Len(blockId) : line[p + k] = blockId[k]
     /\ AllSpace(line, p + Len(blockId) + 1, Len(line))

\* new RegExp(`^${escapeRegExp(key)}:\\s*`).test(line)
keyRegex(key, line) ==
  /\ Len(key) + 1 <= Len(line)
  /\ \A k \in 1..Len(key) : line[k] = key[k]
  /\ line[Len(key) + 1] = ":"

----------------------------------------------------------------------------
(* Results.  A thrown Error is a record with ok = FALSE and the message.   *)

Throw(msg) == [ok |-> FALSE, error |-> msg]

PatchResult(content, startLine, endLine, changedLines) ==
  [ok |-> TRUE, content |-> content,
   lineRange |-> [start |-> startLine, end |-> endLine],
   changedLines |-> changedLines]

\* index (1-based) of the first element of arr satisfying Test, 0 if none
FirstIndex(arr, Test(_)) ==
  IF \E k \in 1..Len(arr) : Test(arr[k])
  THEN CHOOSE k \in 1..Len(arr) : Test(arr[k]) /\ \A j \in 1..(k-1) : ~Test(arr[j])
  ELSE 0

----------------------------------------------------------------------------
(* patchAtHeading                                                          *)

\* a strip that drops a first line that is a heading of any title
stripDuplicateHeading_anyTitle(heading, newContent) ==
  LET contentLines == Split(newContent)
  IN IF Len(contentLines) > 0 /\ anyHeadingRegex(Trim(contentLines[1]))
     THEN Join(Slice(contentLines, 1, Len(contentLines)))
     ELSE newContent

\* the duplicate-heading strip: the content without its first line when that
\* line, trimmed, matches the anchor heading
stripDuplicateHeading(heading, newContent) ==
  LET contentLines == Split(newContent)
  IN IF Len(contentLines) > 0 /\ headingRegex(heading, Trim(contentLines[1]))
     THEN Join(Slice(contentLines, 1, Len(contentLines)))
     ELSE newContent

\* endIndex (0-based) of the section under the heading at 0-based index i:
\* the first later line that is a heading of any level, or lines.length
RECURSIVE sectionEndFrom(_, _)
sectionEndFrom(lines, endIndex) ==
  IF endIndex < Len(lines) /\ ~anyHeadingRegex(lines[endIndex + 1])
  THEN sectionEndFrom(lines, endIndex + 1)
  ELSE endIndex

\* a section that ends only at the end of the document
sectionEnd_toEndOfFile(lines, i) == Len(lines)

sectionEnd(lines, i) == sectionEndFrom(lines, i + 1)

patchAtHeading(content, heading, newContent, position) ==
  LET lines == Split(content)
      found == FirstIndex(lines, LAMBDA l : headingRegex(heading, l))
      i == found - 1
      processedContent == stripDuplicateHeading(heading, newContent)
      insertedLines == Split(processedContent)
  IN IF found = 0
     THEN Throw([text |-> "Heading not found", heading |-> heading])
     ELSE IF position = "before"
     THEN PatchResult(Join(Splice(lines, i, 0, processedContent)),
                      i + 1, i + Len(insertedLines), insertedLines)
     ELSE IF position = "after"
     THEN PatchResult(Join(Splice(lines, i + 1, 0, processedContent)),
                      i + 2, i + 1 + Len(insertedLines), insertedLines)
     ELSE LET endIndex == sectionEnd(lines, i)
          IN PatchResult(Join(Splice(lines, i + 1, endIndex - i - 1, processedContent)),
                         i + 2, i + 1 + Len(insertedLines), insertedLines)

----------------------------------------------------------------------------
(* patchAtTextMatch                                                        *)

\* !pattern || pattern.trim().length === 0
patternIsEmpty(pattern) == Len(pattern) = 0 \/ Len(Trim(pattern)) = 0

\* a comparison that ignores letter case
isMatch_ignoreCase(lines, patternLines, i) ==
  \A j \in 0..(Len(patternLines) - 1) :
     /\ Len(lines[i + j + 1]) = Len(patternLines[j + 1])
     /\ \A k \in 1..Len(patternLines[j + 1]) :
           Lower(lines[i + j + 1][k]) = Lower(patternLines[j + 1][k])

\* the inner loop: every pattern line is === the line of the window at i (0-based)
isMatch(lines, patternLines, i) ==
  \A j \in 0..(Len(patternLines) - 1) : lines[i + j + 1] = patternLines[j + 1]

\* a scan that resumes after the end of a match, missing overlapping windows
RECURSIVE findMatchesFrom_skipMatched(_, _, _)
findMatchesFrom_skipMatched(lines, patternLines, i) ==
  IF i > Len(lines) - Len(patternLines) THEN <<>>
  ELSE IF isMatch(lines, patternLines, i)
  THEN <<[startLine |-> i + 1, endLine |-> i + Len(patternLines)]>>
       \o findMatchesFrom_skipMatched(lines, patternLines, i + Len(patternLines))
  ELSE findMatchesFrom_skipMatched(lines, patternLines, i + 1)

\* the outer loop from index i on: the matches in ascending order of start
RECURSIVE findMatchesFrom(_, _, _)
findMatchesFrom(lines, patternLines, i) ==
  IF i > Len(lines) - Len(patternLines) THEN <<>>
  ELSE (IF isMatch(lines, patternLines, i)
        THEN <<[startLine |-> i + 1, endLine |-> i + Len(patternLines)]>>
        ELSE <<>>)
       \o findMatchesFrom(lines, patternLines, i + 1)

findMatches(lines, patternLines) == findMatchesFrom(lines, patternLines, 0)

contextSize == 2

\* the message of the ambiguity error: its count and, per match, the
\* 'Lines s-e' entry with the context before, the matched lines and the
\* context after
ambiguityError(lines, matches) ==
  [text |-> "Text pattern found N times in file",
   count |-> Len(matches),
   entries |-> [k \in 1..Len(matches) |->
      LET startIdx == matches[k].startLine - 1
          endIdx == matches[k].endLine - 1
          beforeStart == Max(0, startIdx - contextSize)
          afterEnd == Min(Len(lines), endIdx + 1 + contextSize)
      IN [startLine |-> matches[k].startLine,
          endLine |-> matches[k].endLine,
          contextBefore |-> Slice(lines, beforeStart, startIdx),
          matched |-> Slice(lines, startIdx, endIdx + 1),
          contextAfter |-> Slice(lines, endIdx + 1, afterEnd)]]]

\* an 'after' that inserts after the first line of the match
textMatchApply_afterFirstLine(lines, match, patternLength, newContent, position) ==
  LET matchStartIdx == match.startLine - 1
      insertedLines == Split(newContent)
  IN IF position = "before"
     THEN PatchResult(Join(Splice(lines, matchStartIdx, 0, newContent)),
                      match.startLine, match.startLine + Len(insertedLines) - 1,
                      insertedLines)
     ELSE IF position = "after"
     THEN PatchResult(Join(Splice(lines, matchStartIdx + 1, 0, newContent)),
                      match.startLine + 1, match.startLine + Len(insertedLines),
                      insertedLines)
     ELSE PatchResult(Join(Splice(lines, matchStartIdx, patternLength, newContent)),
                      match.startLine, match.startLine + Len(insertedLines) - 1,
                      insertedLines)

\* a replace that removes the first line of the match only
textMatchApply_replaceOneLine(lines, match, patternLength, newContent, position) ==
  LET matchStartIdx == match.startLine - 1
      matchEndIdx == match.endLine - 1
      insertedLines == Split(newContent)
  IN IF position = "before"
     THEN PatchResult(Join(Splice(lines, matchStartIdx, 0, newContent)),
                      match.startLine, match.startLine + Len(insertedLines) - 1,
                      insertedLines)
     ELSE IF position = "after"
     THEN PatchResult(Join(Splice(lines, matchEndIdx + 1, 0, newContent)),
                      match.endLine + 1, match.endLine + Len(insertedLines),
                      insertedLines)
     ELSE PatchResult(Join(Splice(lines, matchStartIdx, 1, newContent)),
                      match.startLine, match.startLine + Len(insertedLines) - 1,
                      insertedLines)

\* exactly one match: the splice of the position and the reported range
textMatchApply(lines, match, patternLength, newContent, position) ==
  LET matchStartIdx == match.startLine - 1
      matchEndIdx == match.endLine - 1
      insertedLines == Split(newContent)
  IN IF position = "before"
     THEN PatchResult(Join(Splice(lines, matchStartIdx, 0, newContent)),
                      match.startLine, match.startLine + Len(insertedLines) - 1,
                      insertedLines)
     ELSE IF position = "after"
     THEN PatchResult(Join(Splice(lines, matchEndIdx + 1, 0, newContent)),
                      match.endLine + 1, match.endLine + Len(insertedLines),
                      insertedLines)
     ELSE PatchResult(Join(Splice(lines, matchStartIdx, patternLength, newContent)),
                      match.startLine, match.startLine + Len(insertedLines) - 1,
                      insertedLines)

patchAtTextMatch(content, pattern, newContent, position) ==
  LET lines == Split(content)
      patternLines == Split(pattern)
      patternLength == Len(patternLines)
      matches == findMatches(lines, patternLines)
  IN IF patternIsEmpty(pattern)
     THEN Throw([text |-> "Text pattern cannot be empty"])
     ELSE IF Len(matches) = 0
     THEN Throw([text |-> "Text pattern not found in file"])
     ELSE IF Len(matches) > 1
     THEN Throw(ambiguityError(lines, matches))
     ELSE textMatchApply(lines, matches[1], patternLength, newContent, position)

----------------------------------------------------------------------------
(* patchAtBlock                                                            *)

\* a resolver that takes the last line carrying the block id
patchAtBlock_lastMatch(content, blockId, newContent, position) ==
  LET lines == Split(content)
      found == IF \E k \in 1..Len(lines) : blockRegex(blockId, lines[k])
               THEN CHOOSE k \in 1..Len(lines) :
                      blockRegex(blockId, lines[k]) /\
                      \A j \in (k+1)..Len(lines) : ~blockRegex(blockId, lines[j])
               ELSE 0
      i == found - 1
      insertedLines == Split(newContent)
  IN IF found = 0
     THEN Throw([text |-> "Block ID not found", blockId |-> blockId])
     ELSE IF position = "before"
     THEN PatchResult(Join(Splice(lines, i, 0, newContent)),
                      i + 1, i + Len(insertedLines), insertedLines)
     ELSE IF position = "after"
     THEN PatchResult(Join(Splice(lines, i + 1, 0, newContent)),
                      i + 2, i + 1 + Len(insertedLines), insertedLines)
     ELSE PatchResult(Join([lines EXCEPT ![i + 1] = newContent]),
                      i + 1, i + Len(insertedLines), insertedLines)

patchAtBlock(content, blockId, newContent, position) ==
  LET lines == Split(content)
      found == FirstIndex(lines, LAMBDA l : blockRegex(blockId, l))
      i == found - 1
      insertedLines == Split(newContent)
  IN IF found = 0
     THEN Throw([text |-> "Block ID not found", blockId |-> blockId])
     ELSE IF position = "before"
     THEN PatchResult(Join(Splice(lines, i, 0, newContent)),
                      i + 1, i + Len(insertedLines), insertedLines)
     ELSE IF position = "after"
     THEN PatchResult(Join(Splice(lines, i + 1, 0, newContent)),
                      i + 2, i + 1 + Len(insertedLines), insertedLines)
     ELSE PatchResult(Join([lines EXCEPT ![i + 1] = newContent]),
                      i + 1, i + Len(insertedLines), insertedLines)

----------------------------------------------------------------------------
(* patchFrontmatter                                                        *)

FrontmatterFence == <<"-", "-", "-">>

\* `${key}: ${value}`
frontmatterLine(key, value) == key \o <<":", " ">> \o value

\* a scan for the closing fence that never stops at one
RECURSIVE frontmatterEndFrom_toEndOfFile(_, _)
frontmatterEndFrom_toEndOfFile(lines, endIndex) ==
  IF endIndex < Len(lines)
  THEN frontmatterEndFrom_toEndOfFile(lines, endIndex + 1)
  ELSE endIndex

\* the index (0-based) of the closing '---', or lines.length
RECURSIVE frontmatterEndFrom(_, _)
frontmatterEndFrom(lines, endIndex) ==
  IF endIndex < Len(lines) /\ lines[endIndex + 1] # FrontmatterFence
  THEN frontmatterEndFrom(lines, endIndex + 1)
  ELSE endIndex

\* a new frontmatter block with no empty line after its closing fence
patchFrontmatter_noBlankLine(content, key, value) ==
  LET lines == Split(content)
      newLine == frontmatterLine(key, value)
  IN IF lines[1] = FrontmatterFence
     THEN LET endIndex == frontmatterEndFrom(lines, 1)
              hit == IF \E k \in 2..endIndex : keyRegex(key, lines[k])
                     THEN CHOOSE k \in 2..endIndex :
                            keyRegex(key, lines[k]) /\
                            \A j \in 2..(k-1) : ~keyRegex(key, lines[j])
                     ELSE 0
          IN IF hit # 0
             THEN PatchResult(Join([lines EXCEPT ![hit] = newLine]),
                              hit, hit, <<newLine>>)
             ELSE PatchResult(Join(Splice(lines, endIndex, 0, newLine)),
                              endIndex + 1, endIndex + 1, <<newLine>>)
     ELSE PatchResult(Join(<<FrontmatterFence, newLine, FrontmatterFence>> \o lines),
                      2, 2, <<newLine>>)

patchFrontmatter(content, key, value) ==
  LET lines == Split(content)
      newLine == frontmatterLine(key, value)
  IN IF lines[1] = FrontmatterFence
     THEN LET endIndex == frontmatterEndFrom(lines, 1)
              \* 1-based position of the first line in 1..endIndex-1 (0-based)
              \* that starts with the key
              hit == IF \E k \in 2..endIndex : keyRegex(key, lines[k])
                     THEN CHOOSE k \in 2..endIndex :
                            keyRegex(key, lines[k]) /\
                            \A j \in 2..(k-1) : ~keyRegex(key, lines[j])
                     ELSE 0
          IN IF hit # 0
             THEN PatchResult(Join([lines EXCEPT ![hit] = newLine]),
                              hit, hit, <<newLine>>)
             ELSE PatchResult(Join(Splice(lines, endIndex, 0, newLine)),
                              endIndex + 1, endIndex + 1, <<newLine>>)
     ELSE PatchResult(Join(<<FrontmatterFence, newLine, FrontmatterFence, <<>>>> \o lines),
                      2, 2, <<newLine>>)

----------------------------------------------------------------------------
(* patchAtLine: the line anchor of the handlers' line-number variant       *)

\* a JavaScript number that is either an integer or NaN
NaN == [nan |-> TRUE]
Num(n) == [nan |-> FALSE, val |-> n]

Digits == <<"0", "1", "2", "3", "4", "5", "6", "7", "8", "9">>
IsDigit(c) == \E d \in 1..10 : Digits[d] = c
DigitVal(c) == (CHOOSE d \in 1..10 : Digits[d] = c) - 1

RECURSIVE TrimStart(_)
TrimStart(s) == IF Len(s) > 0 /\ IsSpace(s[1]) THEN TrimStart(Tail(s)) ELSE s

RECURSIVE parseDigits(_, _, _)
parseDigits(s, k, acc) ==
  IF k <= Len(s) /\ IsDigit(s[k])
  THEN parseDigits(s, k + 1, acc * 10 + DigitVal(s[k]))
  ELSE acc

\* parseInt(string): leading white space is skipped, a sign is read, then the
\* longest prefix of decimal digits; whatever follows the digits is ignored
parseInt(s) ==
  LET t == TrimStart(s)
      signed == Len(t) > 0 /\ t[1] \in {"+", "-"}
      u == IF signed THEN Tail(t) ELSE t
      magnitude == parseDigits(u, 1, 0)
  IN IF Len(u) = 0 \/ ~IsDigit(u[1]) THEN NaN
     ELSE Num(IF signed /\ t[1] = "-" THEN 0 - magnitude ELSE magnitude)

\* an 'after' that inserts where 'before' does
patchAtLine_afterIsBefore(content, lineNumber, newContent, position) ==
  LET lines == Split(content)
      n == lineNumber.val
      index == n - 1
      insertedLines == Split(newContent)
  IN IF lineNumber.nan
     THEN Throw([text |-> "Invalid line number. Line number must be an integer."])
     ELSE IF n < 1 \/ n > Len(lines)
     THEN Throw([text |-> "Line N out of range (1-L)", line |-> n, last |-> Len(lines)])
     ELSE IF position = "before" \/ position = "after"
     THEN PatchResult(Join(Splice(lines, index, 0, newContent)),
                      n, n + Len(insertedLines) - 1, insertedLines)
     ELSE PatchResult(Join([lines EXCEPT ![index + 1] = newContent]),
                      n, n + Len(insertedLines) - 1, insertedLines)

patchAtLine(content, lineNumber, newContent, position) ==
  LET lines == Split(content)
      n == lineNumber.val
      index == n - 1
      insertedLines == Split(newContent)
  IN IF lineNumber.nan
     THEN Throw([text |-> "Invalid line number. Line number must be an integer."])
     ELSE IF n < 1 \/ n > Len(lines)
     THEN Throw([text |-> "Line N out of range (1-L)", line |-> n, last |-> Len(lines)])
     ELSE IF position = "before"
     THEN PatchResult(Join(Splice(lines, index, 0, newContent)),
                      n, n + Len(insertedLines) - 1, insertedLines)
     ELSE IF position = "after"
     THEN PatchResult(Join(Splice(lines, index + 1, 0, newContent)),
                      n + 1, n + Len(insertedLines), insertedLines)
     ELSE PatchResult(Join([lines EXCEPT ![index + 1] = newContent]),
                      n, n + Len(insertedLines) - 1, insertedLines)

----------------------------------------------------------------------------
(* The vault (InMemoryVaultManager): files maps each existing path to its  *)
(* content.  A path is a sequence of segments.                             *)

fileExists(f, path) == path \in DOMAIN f

readFile(f, path) ==
  IF path \in DOMAIN f
  THEN [ok |-> TRUE, value |-> f[path]]
  ELSE Throw([text |-> "Failed to read file: not found", path |-> path])

writeFile(f, path, content) == (path :> content) @@ f

\* the vault without the path
removeFile(f, path) == [p \in DOMAIN f \ {path} |-> f[p]]

\* ensureDirectoryForFile: the directory a file path lies in joins the
\* directories; the first segment of a path of several segments names it
directoryOf(path) == IF Len(path) > 1 THEN {<<path[1]>>} ELSE {}

\* the directories of the vault after construction
directoriesOf(f) == UNION {directoryOf(p) : p \in DOMAIN f}

\* deleteFile: refused for a directory and for a path that is not there
deleteFile(f, path) ==
  IF path \in directoriesOf(f)
  THEN Throw([text |-> "Failed to delete file: it is a directory", path |-> path])
  ELSE IF path \notin DOMAIN f
  THEN Throw([text |-> "Failed to delete file: not found", path |-> path])
  ELSE [ok |-> TRUE, value |-> removeFile(f, path)]

\* moveFile: the record of the source is deleted, then set at the destination
moveFile(f, sourcePath, destPath) ==
  IF sourcePath \notin DOMAIN f
  THEN Throw([text |-> "Failed to move file: not found", path |-> sourcePath])
  ELSE [ok |-> TRUE, value |-> writeFile(removeFile(f, sourcePath), destPath, f[sourcePath])]

----------------------------------------------------------------------------
(* getOrInitializeContent                                                  *)

NoConfig == [present |-> FALSE]

DateToken == "{{date}}"

\* the strings matched by \d{4}-\d{2}-\d{2}, as path segments
Dates == {"2025-01-02"}

\* the template is made the source of a regular expression as it stands: a
\* '.' in it matches any single character, every other character of the
\* segments of the model matches itself. Of the segments of the model "xmd"
\* is the one that differs from ".md" at the '.' only.
regexTest(source, seg) ==
  \/ seg = source
  \/ source = ".md" /\ seg = "xmd"

\* path.match(new RegExp('^' + template.replace('{{date}}', '(\\d{4}-\\d{2}-\\d{2})') + '$')):
\* the first {{date}} segment of the template stands for a date, every other
\* segment for the expression it is the source of; the result is <<date>> or
\* <<>> (no match)
journalPathMatch(template, path) ==
  LET dateAt == FirstIndex(template, LAMBDA seg : seg = DateToken)
  IN IF /\ dateAt # 0
        /\ Len(path) = Len(template)
        /\ path[dateAt] \in Dates
        /\ \A k \in 1..Len(template) : k # dateAt => regexTest(template[k], path[k])
     THEN <<path[dateAt]>>
     ELSE <<>>

\* templateContent.replace(/\{\{date\}\}/g, dateStr)
replaceDate(s, dateStr) == [k \in 1..Len(s) |-> IF s[k] = DateToken THEN dateStr ELSE s[k]]

getOrInitializeContent(f, path, cfg) ==
  IF fileExists(f, path) THEN readFile(f, path)
  ELSE IF ~cfg.present THEN [ok |-> TRUE, value |-> <<>>]
  ELSE LET match == journalPathMatch(cfg.journalPathTemplate, path)
           template == readFile(f, cfg.journalFileTemplate)
       IN IF match = <<>> THEN [ok |-> TRUE, value |-> <<>>]
          ELSE IF ~template.ok THEN template
          ELSE [ok |-> TRUE, value |-> replaceDate(template.value, match[1])]

----------------------------------------------------------------------------
(* handlePatchContent                                                      *)

\* a switch that strips a leading heading line for every anchor type
patchDispatch_stripAlways(currentContent, args) ==
  LET stripped == stripDuplicateHeading_anyTitle(args.anchor_value, args.content)
  IN CASE args.anchor_type = "heading" ->
            patchAtHeading(currentContent, args.anchor_value, args.content, args.position)
       [] args.anchor_type = "text_match" ->
            patchAtTextMatch(currentContent, args.anchor_value, stripped, args.position)
       [] args.anchor_type = "block" ->
            patchAtBlock(currentContent, args.anchor_value, stripped, args.position)
       [] args.anchor_type = "frontmatter" ->
            patchFrontmatter(currentContent, args.anchor_value, stripped)
       [] OTHER ->
            Throw([text |-> "Unknown anchor type", anchor_type |-> args.anchor_type])

\* the switch on anchor_type of file-handlers.ts
patchDispatch(currentContent, args) ==
  CASE args.anchor_type = "heading" ->
         patchAtHeading(currentContent, args.anchor_value, args.content, args.position)
    [] args.anchor_type = "text_match" ->
         patchAtTextMatch(currentContent, args.anchor_value, args.content, args.position)
    [] args.anchor_type = "block" ->
         patchAtBlock(currentContent, args.anchor_value, args.content, args.position)
    [] args.anchor_type = "frontmatter" ->
         patchFrontmatter(currentContent, args.anchor_value, args.content)
    [] OTHER ->
         Throw([text |-> "Unknown anchor type", anchor_type |-> args.anchor_type])

\* the switch on anchor_type of the line-number variant of the handlers
patchDispatchLine(currentContent, args) ==
  CASE args.anchor_type = "heading" ->
         patchAtHeading(currentContent, args.anchor_value, args.content, args.position)
    [] args.anchor_type = "line" ->
         patchAtLine(currentContent, parseInt(args.anchor_value), args.content, args.position)
    [] args.anchor_type = "block" ->
         patchAtBlock(currentContent, args.anchor_value, args.content, args.position)
    [] args.anchor_type = "frontmatter" ->
         patchFrontmatter(currentContent, args.anchor_value, args.content)
    [] OTHER ->
         Throw([text |-> "Unknown anchor type", anchor_type |-> args.anchor_type])

\* a preview whose context before the change starts one line late and so
\* takes in the first changed line
changePreview_lateBefore(patchResult) ==
  LET allLines == Split(patchResult.content)
      startLine == patchResult.lineRange.start
      endLine == patchResult.lineRange.end
  IN [line_range |-> [start |-> startLine, end |-> endLine],
      context_before |-> Slice(allLines, Max(0, startLine - contextSize), startLine),
      changed_content |-> patchResult.changedLines,
      context_after |-> Slice(allLines, endLine, Min(Len(allLines), endLine + contextSize))]

\* the change preview built after the write
changePreview(patchResult) ==
  LET allLines == Split(patchResult.content)
      startLine == patchResult.lineRange.start
      endLine == patchResult.lineRange.end
  IN [line_range |-> [start |-> startLine, end |-> endLine],
      context_before |-> Slice(allLines, Max(0, startLine - 1 - contextSize), startLine - 1),
      changed_content |-> patchResult.changedLines,
      context_after |-> Slice(allLines, endLine, Min(Len(allLines), endLine + contextSize))]

Failure(f, err) ==
  [files |-> f, wrote |-> FALSE, response |-> [success |-> FALSE, error |-> err]]

Success(f, path, patchResult) ==
  [files |-> writeFile(f, path, patchResult.content),
   wrote |-> TRUE,
   response |-> [success |-> TRUE,
                 data |-> [path |-> path,
                           change_preview |-> changePreview(patchResult)]]]

\* a handler that initialises a missing file on disk before it patches
handlePatchContent_initFirst(f, cfg, args) ==
  LET exists == fileExists(f, args.path)
      createIfMissing == args.create_if_missing # FALSE
      currentContent == getOrInitializeContent(f, args.path, cfg)
      patchResult == patchDispatch(currentContent.value, args)
  IN IF ~exists /\ ~createIfMissing
     THEN Failure(f, [text |-> "File does not exist", path |-> args.path])
     ELSE IF ~currentContent.ok THEN Failure(f, currentContent.error)
     ELSE IF ~patchResult.ok
     THEN [files |-> writeFile(f, args.path, currentContent.value), wrote |-> TRUE,
           response |-> [success |-> FALSE, error |-> patchResult.error]]
     ELSE Success(f, args.path, patchResult)

\* the handler from its first line to its return: the vault after the call,
\* whether vault.writeFile was called, and the response
handlePatchContent(f, cfg, args) ==
  LET exists == fileExists(f, args.path)
      createIfMissing == args.create_if_missing # FALSE
      currentContent == getOrInitializeContent(f, args.path, cfg)
      patchResult == patchDispatch(currentContent.value, args)
  IN IF ~exists /\ ~createIfMissing
     THEN Failure(f, [text |-> "File does not exist", path |-> args.path])
     ELSE IF ~currentContent.ok THEN Failure(f, currentContent.error)
     ELSE IF ~patchResult.ok THEN Failure(f, patchResult.error)
     ELSE Success(f, args.path, patchResult)

\* the same handler in the line-number variant
handlePatchContentLine(f, cfg, args) ==
  LET exists == fileExists(f, args.path)
      createIfMissing == args.create_if_missing # FALSE
      currentContent == getOrInitializeContent(f, args.path, cfg)
      patchResult == patchDispatchLine(currentContent.value, args)
  IN IF ~exists /\ ~createIfMissing
     THEN Failure(f, [text |-> "File does not exist", path |-> args.path])
     ELSE IF ~currentContent.ok THEN Failure(f, currentContent.error)
     ELSE IF ~patchResult.ok THEN Failure(f, patchResult.error)
     ELSE Success(f, args.path, patchResult)

----------------------------------------------------------------------------
(* apply-diff-patch: the unified-diff applier.  A parsed diff is a         *)
(* sequence of hunks; a hunk has its header numbers and its lines, each    *)
(* with a kind (context, delete, insert) and the text after the prefix.    *)

RECURSIVE SelectKinds(_, _)
SelectKinds(hunkLines, kinds) ==
  IF Len(hunkLines) = 0 THEN <<>>
  ELSE (IF hunkLines[1].kind \in kinds THEN <<hunkLines[1].text>> ELSE <<>>)
       \o SelectKinds(Tail(hunkLines), kinds)

hunkOldLines(hunk) == SelectKinds(hunk.lines, {"context", "delete"})
hunkNewLines(hunk) == SelectKinds(hunk.lines, {"context", "insert"})
hunkInserted(hunk) == SelectKinds(hunk.lines, {"insert"})

\* an index that takes oldStart as a line number even when it is 0
hunkIndex_oneBased(hunk) == hunk.oldStart - 1

\* 0-based index of the first line the hunk covers; a pure insertion
\* (oldCount = 0) goes after line oldStart
hunkIndex(hunk) == IF hunk.oldCount = 0 THEN hunk.oldStart ELSE hunk.oldStart - 1

\* the context and deletion lines equal the oldCount lines at oldStart
hunkMatches(lines, hunk) ==
  LET old == hunkOldLines(hunk)
      at == hunkIndex(hunk)
  IN /\ Len(old) = hunk.oldCount
     /\ at >= 0
     /\ at + Len(old) <= Len(lines)
     /\ \A k \in 1..Len(old) : lines[at + k] = old[k]

\* an applier that leaves the deletion lines in the document
RECURSIVE applyHunksFrom_keepDeleted(_, _, _, _)
applyHunksFrom_keepDeleted(lines, hunks, k, offset) ==
  IF k > Len(hunks) THEN lines
  ELSE LET hunk == hunks[k]
           at == hunkIndex(hunk) + offset
           new == hunkNewLines(hunk)
           start == Max(0, Min(at, Len(lines)))
           kept == Len(SelectKinds(hunk.lines, {"context"}))
           deleteCount == Min(kept, Len(lines) - start)
       IN applyHunksFrom_keepDeleted(
            SubSeq(lines, 1, start) \o new
              \o SubSeq(lines, start + deleteCount + 1, Len(lines)),
            hunks, k + 1, offset + Len(new) - kept)

\* an applier that places every hunk at its original position in the lines
\* the earlier hunks have already changed
RECURSIVE applyHunksFrom_noOffset(_, _, _, _)
applyHunksFrom_noOffset(lines, hunks, k, offset) ==
  IF k > Len(hunks) THEN lines
  ELSE LET hunk == hunks[k]
           at == hunkIndex(hunk)
           new == hunkNewLines(hunk)
           start == Max(0, Min(at, Len(lines)))
           deleteCount == Min(hunk.oldCount, Len(lines) - start)
       IN applyHunksFrom_noOffset(
            SubSeq(lines, 1, start) \o new
              \o SubSeq(lines, start + deleteCount + 1, Len(lines)),
            hunks, k + 1, offset)

\* the hunks from the k-th on, applied to lines already shifted by offset
RECURSIVE applyHunksFrom(_, _, _, _)
applyHunksFrom(lines, hunks, k, offset) ==
  IF k > Len(hunks) THEN lines
  ELSE LET hunk == hunks[k]
           at == hunkIndex(hunk) + offset
           new == hunkNewLines(hunk)
           start == Max(0, Min(at, Len(lines)))
           deleteCount == Min(hunk.oldCount, Len(lines) - start)
       IN applyHunksFrom(
            SubSeq(lines, 1, start) \o new
              \o SubSeq(lines, start + deleteCount + 1, Len(lines)),
            hunks, k + 1, offset + Len(new) - hunk.oldCount)

\* an applier that verifies the first hunk only
applyDiff_firstHunkOnly(content, hunks) ==
  LET lines == Split(content)
      first == hunks[1]
      startLine == hunkIndex(first) + 1
      inserted == hunkInserted(first)
  IN IF ~hunkMatches(lines, first)
     THEN Throw([text |-> "Failed to apply patch: diff does not match file content"])
     ELSE PatchResult(Join(applyHunksFrom(lines, hunks, 1, 0)),
                      startLine, startLine + Max(Len(inserted), 1) - 1, inserted)

\* every hunk is verified against the document before any is applied
applyDiff(content, hunks) ==
  LET lines == Split(content)
      first == hunks[1]
      leading == IF \E k \in 1..Len(first.lines) : first.lines[k].kind # "context"
                 THEN (CHOOSE k \in 1..Len(first.lines) :
                         /\ first.lines[k].kind # "context"
                         /\ \A j \in 1..(k-1) : first.lines[j].kind = "context") - 1
                 ELSE 0
      startLine == hunkIndex(first) + leading + 1
      inserted == hunkInserted(first)
  IN IF \E k \in 1..Len(hunks) : ~hunkMatches(lines, hunks[k])
     THEN Throw([text |-> "Failed to apply patch: diff does not match file content"])
     ELSE PatchResult(Join(applyHunksFrom(lines, hunks, 1, 0)),
                      startLine, startLine + Max(Len(inserted), 1) - 1, inserted)

\* the diff text: its lines are hunk headers '@@ -a,b +c,d @@' and, after a
\* header, the lines of the hunk, each a prefix character and a text

\* the string has the literal at position k
HasAt(s, k, literal) ==
  /\ k + Len(literal) - 1 <= Len(s)
  /\ SubSeq(s, k, k + Len(literal) - 1) = literal

\* the number of decimal digits the string has from position k on
RECURSIVE digitRun(_, _)
digitRun(s, k) == IF k <= Len(s) /\ IsDigit(s[k]) THEN 1 + digitRun(s, k + 1) ELSE 0

\* the hunk-header grammar @@ -<oldStart>[,<oldCount>] +<newStart>[,<newCount>] @@,
\* a count that is left out being 1
parseHunkHeader(line) ==
  LET p1 == 5
      n1 == digitRun(line, p1)
      c1 == HasAt(line, p1 + n1, <<",">>) /\ digitRun(line, p1 + n1 + 1) > 0
      q == p1 + n1 + (IF c1 THEN 1 + digitRun(line, p1 + n1 + 1) ELSE 0)
      p3 == q + 2
      n3 == digitRun(line, p3)
      c3 == HasAt(line, p3 + n3, <<",">>) /\ digitRun(line, p3 + n3 + 1) > 0
      r == p3 + n3 + (IF c3 THEN 1 + digitRun(line, p3 + n3 + 1) ELSE 0)
  IN IF /\ HasAt(line, 1, <<"@", "@", " ", "-">>)
        /\ n1 > 0
        /\ HasAt(line, q, <<" ", "+">>)
        /\ n3 > 0
        /\ HasAt(line, r, <<" ", "@", "@">>)
     THEN [ok |-> TRUE,
           oldStart |-> parseDigits(line, p1, 0),
           oldCount |-> IF c1 THEN parseDigits(line, p1 + n1 + 1, 0) ELSE 1,
           newStart |-> parseDigits(line, p3, 0),
           newCount |-> IF c3 THEN parseDigits(line, p3 + n3 + 1, 0) ELSE 1]
     ELSE [ok |-> FALSE]

\* a line that sets out to be a hunk header
isHeaderLike(line) == HasAt(line, 1, <<"@", "@">>)

\* a line of a hunk: '+' is an insertion, '-' a deletion, every other line a
\* context line; the prefix character is stripped
parseDiffLine(line) ==
  [kind |-> IF Len(line) > 0 /\ line[1] = "+" THEN "insert"
            ELSE IF Len(line) > 0 /\ line[1] = "-" THEN "delete"
            ELSE "context",
   text |-> IF Len(line) > 0 THEN Tail(line) ELSE line]

\* a parser that reads a malformed header as a line of the hunk
RECURSIVE parseDiffFrom_lenientHeader(_, _, _)
parseDiffFrom_lenientHeader(lines, k, hunks) ==
  IF k > Len(lines)
  THEN IF hunks = <<>>
       THEN Throw([text |-> "Invalid diff format: missing hunk header"])
       ELSE [ok |-> TRUE, value |-> hunks]
  ELSE LET header == parseHunkHeader(lines[k])
       IN IF header.ok
          THEN parseDiffFrom_lenientHeader(lines, k + 1,
                 Append(hunks, [oldStart |-> header.oldStart, oldCount |-> header.oldCount,
                                newStart |-> header.newStart, newCount |-> header.newCount,
                                lines |-> <<>>]))
          ELSE IF hunks = <<>>
          THEN parseDiffFrom_lenientHeader(lines, k + 1, hunks)
          ELSE parseDiffFrom_lenientHeader(lines, k + 1,
                 [hunks EXCEPT ![Len(hunks)].lines = Append(@, parseDiffLine(lines[k]))])

\* the lines of the diff text from the k-th on, hunks being those read so far
RECURSIVE parseDiffFrom(_, _, _)
parseDiffFrom(lines, k, hunks) ==
  IF k > Len(lines)
  THEN IF hunks = <<>>
       THEN Throw([text |-> "Invalid diff format: missing hunk header"])
       ELSE [ok |-> TRUE, value |-> hunks]
  ELSE LET header == parseHunkHeader(lines[k])
       IN IF header.ok
          THEN parseDiffFrom(lines, k + 1,
                 Append(hunks, [oldStart |-> header.oldStart, oldCount |-> header.oldCount,
                                newStart |-> header.newStart, newCount |-> header.newCount,
                                lines |-> <<>>]))
          ELSE IF isHeaderLike(lines[k])
          THEN Throw([text |-> "Invalid diff format: invalid hunk header"])
          ELSE IF hunks = <<>>
          THEN parseDiffFrom(lines, k + 1, hunks)
          ELSE parseDiffFrom(lines, k + 1,
                 [hunks EXCEPT ![Len(hunks)].lines = Append(@, parseDiffLine(lines[k]))])

parseDiff(diffText) == parseDiffFrom(Split(diffText), 1, <<>>)

handleApplyDiffPatch(f, args) ==
  LET current == readFile(f, args.path)
      parsed == parseDiff(args.diff)
      result == applyDiff(current.value, parsed.value)
  IN IF ~fileExists(f, args.path)
     THEN Failure(f, [text |-> "File does not exist", path |-> args.path])
     ELSE IF ~parsed.ok THEN Failure(f, parsed.error)
     ELSE IF ~result.ok THEN Failure(f, result.error)
     ELSE Success(f, args.path, result)

----------------------------------------------------------------------------
(* create-note, move-note and append-content, each from its first line to  *)
(* its return                                                              *)

Done(f, wrote) == [files |-> f, wrote |-> wrote, response |-> [success |-> TRUE]]

\* a create-note that writes whatever the existence check found
handleCreateNote_alwaysWrite(f, args) ==
  Done(writeFile(f, args.path, args.content), TRUE)

handleCreateNote(f, args) ==
  LET exists == fileExists(f, args.path)
  IN IF exists /\ ~args.overwrite
     THEN Failure(f, [text |-> "File already exists. Set overwrite=true to replace it.",
                      path |-> args.path])
     ELSE Done(writeFile(f, args.path, args.content), TRUE)

\* move-note: a destination that exists is deleted first when overwrite is
\* set; what deleteFile has done stays done when moveFile then throws
handleMoveNote(f, args) ==
  LET destExists == fileExists(f, args.destination_path)
      deleted == deleteFile(f, args.destination_path)
      afterDelete == IF destExists THEN deleted.value ELSE f
      moved == moveFile(afterDelete, args.source_path, args.destination_path)
  IN IF destExists /\ ~args.overwrite
     THEN Failure(f, [text |-> "Destination already exists. Set overwrite=true to replace it.",
                      path |-> args.destination_path])
     ELSE IF destExists /\ ~deleted.ok THEN Failure(f, deleted.error)
     ELSE IF ~moved.ok
     THEN [files |-> afterDelete, wrote |-> destExists,
           response |-> [success |-> FALSE, error |-> moved.error]]
     ELSE Done(moved.value, TRUE)

\* s.endsWith('\n')
EndsWithNewline(s) == Len(s) > 0 /\ s[Len(s)] = NL

\* an append that separates without looking at how the current content ends
appendedContent_alwaysSeparated(currentContent, content, newline) ==
  (IF newline # FALSE /\ Len(currentContent) > 0
   THEN currentContent \o <<NL>> ELSE currentContent) \o content

\* the content append-content stores
appendedContent(currentContent, content, newline) ==
  (IF newline # FALSE /\ Len(currentContent) > 0 /\ ~EndsWithNewline(currentContent)
   THEN currentContent \o <<NL>> ELSE currentContent) \o content

\* an append-content that initialises without looking at create_if_missing
handleAppendContent_createAlways(f, cfg, args) ==
  LET newline == args.newline # FALSE
      currentContent == getOrInitializeContent(f, args.path, cfg)
  IN IF ~currentContent.ok THEN Failure(f, currentContent.error)
     ELSE Done(writeFile(f, args.path,
                         appendedContent(currentContent.value, args.content, newline)), TRUE)

handleAppendContent(f, cfg, args) ==
  LET exists == fileExists(f, args.path)
      newline == args.newline # FALSE
      createIfMissing == args.create_if_missing # FALSE
      currentContent == getOrInitializeContent(f, args.path, cfg)
  IN IF ~exists /\ ~createIfMissing
     THEN Failure(f, [text |-> "File does not exist", path |-> args.path])
     ELSE IF ~currentContent.ok THEN Failure(f, currentContent.error)
     ELSE Done(writeFile(f, args.path,
                         appendedContent(currentContent.value, args.content, newline)), TRUE)

----------------------------------------------------------------------------
(* formatJournalEntry and insertUnderSection of log-journal-entry          *)

\* Number.prototype.toString() of 0..99
toString(n) ==
  IF n < 10 THEN <<Digits[n + 1]>>
  ELSE <<Digits[(n \div 10) + 1], Digits[(n % 10) + 1]>>

\* s.padStart(2, '0')
padStart(s) == IF Len(s) < 2 THEN <<"0">> \o s ELSE s

\* HH:MM AM/PM of the UTC time
formatTime(date) ==
  LET hours == date.hours
      minutes == date.minutes
      ampm == IF hours >= 12 THEN <<"P", "M">> ELSE <<"A", "M">>
      displayHours == IF hours % 12 = 0 THEN 12 ELSE hours % 12
      displayMinutes == padStart(toString(minutes))
  IN toString(displayHours) \o <<":">> \o displayMinutes \o <<" ">> \o ampm

\* toUpperCase over the first letters of the activity types
Upper(c) ==
  CASE c = "d" -> "D" [] c = "r" -> "R" [] c = "w" -> "W"
    [] c = "p" -> "P" [] c = "l" -> "L" [] OTHER -> c

\* str.charAt(0).toUpperCase() + str.slice(1)
capitalizeFirst(str) == IF Len(str) = 0 THEN str ELSE <<Upper(str[1])>> \o Tail(str)

\* str.replace(/\s+/g, '-')
RECURSIVE replaceSpaces(_)
replaceSpaces(s) ==
  IF Len(s) = 0 THEN s
  ELSE IF IsSpace(s[1]) THEN <<"-">> \o replaceSpaces(TrimStart(s))
  ELSE <<s[1]>> \o replaceSpaces(Tail(s))

\* [a-z0-9-\/]
IsTagChar(c) ==
  \/ IsDigit(c)
  \/ c \in {"a", "b", "c", "d", "e", "f", "g", "h", "i", "j", "k", "l", "m", "n",
            "o", "p", "q", "r", "s", "t", "u", "v", "w", "x", "y", "z", "-", "/"}

sanitizeTag(str) ==
  SelectSeq(replaceSpaces([k \in 1..Len(str) |-> Lower(str[k])]), IsTagChar)

\* Array.prototype.join(sep)
RECURSIVE JoinWith(_, _)
JoinWith(arr, sep) ==
  IF Len(arr) = 0 THEN <<>>
  ELSE IF Len(arr) = 1 THEN arr[1]
  ELSE arr[1] \o sep \o JoinWith(Tail(arr), sep)

\* outputs undefined or empty and project undefined or '' add no line
formatJournalEntry(data) ==
  LET time == formatTime(data.timestamp)
      activityLabel == capitalizeFirst(data.activityType)
      topicTags == JoinWith([k \in 1..Len(data.keyTopics) |->
                               <<"#">> \o sanitizeTag(data.keyTopics[k])], <<" ">>)
      outputsList == JoinWith(data.outputs, <<",", " ">>)
  IN Join(<<<<"#", "#", "#", " ">> \o time \o <<" ", "-", " ">> \o activityLabel,
            data.summary,
            <<>>>>
          \o (IF Len(data.keyTopics) > 0
              THEN <<<<"*", "*", "T", "o", "p", "i", "c", "s", ":", "*", "*", " ">> \o topicTags>>
              ELSE <<>>)
          \o (IF Len(data.outputs) > 0
              THEN <<<<"*", "*", "O", "u", "t", "p", "u", "t", "s", ":", "*", "*", " ">>
                       \o outputsList>>
              ELSE <<>>)
          \o (IF Len(data.project) > 0
              THEN <<<<"*", "*", "P", "r", "o", "j", "e", "c", "t", ":", "*", "*", " ", "[", "[">>
                       \o data.project \o <<"]", "]">>>>
              ELSE <<>>)
          \o <<<<>>, <<"-", "-", "-">>, <<>>>>)

\* the length of the match of /^#+/, 0 without one
RECURSIVE leadingHashes(_)
leadingHashes(s) ==
  IF Len(s) > 0 /\ s[1] = "#" THEN 1 + leadingHashes(Tail(s)) ELSE 0

\* sectionHeading.match(/^#+/)?.[0].length || 2
sectionLevelOf(sectionHeading) ==
  IF leadingHashes(sectionHeading) = 0 THEN 2 ELSE leadingHashes(sectionHeading)

\* line.trim().match(/^(#+)\s/) with at most sectionLevel '#'
isNextSection(rawLine, sectionLevel) ==
  LET line == Trim(rawLine)
      level == leadingHashes(line)
  IN /\ level > 0
     /\ level + 1 <= Len(line)
     /\ IsSpace(line[level + 1])
     /\ level <= sectionLevel

insertUnderSection(content, sectionHeading, entry) ==
  LET lines == Split(content)
      found == FirstIndex(lines, LAMBDA l : Trim(l) = sectionHeading)
      sectionLevel == sectionLevelOf(sectionHeading)
      next == {k \in (found + 1)..Len(lines) : isNextSection(lines[k], sectionLevel)}
      insertIndex == IF next = {} THEN Len(lines)
                     ELSE (CHOOSE k \in next : \A j \in next : k <= j) - 1
  IN IF found = 0
     THEN content \o <<NL, NL>> \o sectionHeading \o <<NL>> \o entry
     ELSE Join(Splice(lines, insertIndex, 0, entry))

\* config.journalPathTemplate.replace('{{date}}', dateStr)
journalPathOf(template, dateStr) ==
  LET dateAt == FirstIndex(template, LAMBDA seg : seg = DateToken)
  IN [k \in 1..Len(template) |-> IF k = dateAt THEN dateStr ELSE template[k]]

\* now is the clock reading of the call: its UTC date, hours and minutes
handleLogJournalEntry(f, cfg, args, now) ==
  LET dateStr == now.date
      journalPath == journalPathOf(cfg.journalPathTemplate, dateStr)
      content == getOrInitializeContent(f, journalPath, cfg)
      entry == formatJournalEntry([timestamp |-> now,
                                   activityType |-> args.activity_type,
                                   summary |-> args.summary,
                                   keyTopics |-> args.key_topics,
                                   outputs |-> args.outputs,
                                   project |-> args.project])
  IN IF ~content.ok THEN Failure(f, content.error)
     ELSE [files |-> writeFile(f, journalPath,
                               insertUnderSection(content.value, cfg.journalActivitySection,
                                                  entry)),
           wrote |-> TRUE,
           response |-> [success |-> TRUE,
                         data |-> [success |-> TRUE, journal_path |-> journalPath,
                                   entry_timestamp |-> now]]]

----------------------------------------------------------------------------
(* The documents and the requests of the model                             *)

\* the longest document of the initial vault, in lines
MaxDocLines == 3

\* the largest number of hunks of a diff
MaxHunks == 2

HeadingA == <<"#", " ", "a">>
HeadingUpperA == <<"#", "#", " ", "A", " ">>
HeadingCaretA == <<"#", " ", "^", "a">>
PlainA == <<"a">>
KeyAB == <<"a", ":", " ", "b">>
EmptyLine == <<>>

\* the lines documents are made of: headings of two levels and two titles
\* (one of them also a block line), a plain line, the frontmatter fence, a
\* frontmatter entry and the empty line
LineSet == {HeadingA, HeadingUpperA, HeadingCaretA, PlainA, FrontmatterFence, KeyAB, EmptyLine}

SeqsUpTo(S, n) == UNION {[1..k -> S] : k \in 1..n}

Docs == {Join(ls) : ls \in SeqsUpTo(LineSet, MaxDocLines)}

\* the lines of the documents diffs are asked of: the line the hunks name,
\* another line and the empty line
DiffLineSet == {PlainA, <<"b">>, EmptyLine}

DiffDocs == {Join(ls) : ls \in SeqsUpTo(DiffLineSet, MaxDocLines)}

NotePath == <<"Notes/", "n", ".md">>
JournalPath == <<"Journal/", "2025-01-02", ".md">>
TemplatePath == <<"Templates/", "Daily Note", ".md">>

\* a path that is the journal path but for the character at the '.'
DotPath == <<"Journal/", "2025-01-02", "xmd">>

TemplateContent == <<"#", " ", DateToken, NL, "#", " ", "a">>

Config == [present |-> TRUE,
           journalPathTemplate |-> <<"Journal/", DateToken, ".md">>,
           journalFileTemplate |-> TemplatePath,
           journalActivitySection |-> <<"#", "#", " ", "J">>]

Positions == {"before", "after", "replace"}

Line(a, b) == a \o <<NL>> \o b

HeadingContents ==
  {<<"b">>, HeadingA, <<" ">> \o HeadingUpperA, HeadingCaretA,
   Line(HeadingUpperA, <<"b">>), Line(<<"b">>, HeadingA), <<>>}

OtherContents == {<<"b">>, Line(HeadingA, <<"b">>)}

HeadingAnchors ==
  [type : {"heading"}, value : {<<"a">>, <<"^", "a">>, <<"b">>}, content : HeadingContents]

TextMatchAnchors ==
  [type : {"text_match"},
   value : {<<"a">>, <<"A">>, <<"a", " ">>, <<>>, <<" ">>,
            Line(PlainA, PlainA), Line(HeadingA, PlainA)},
   content : OtherContents]

BlockAnchors == [type : {"block"}, value : {<<"a">>, <<"b">>}, content : OtherContents]

FrontmatterAnchors ==
  [type : {"frontmatter"}, value : {<<"a">>, <<"b">>},
   content : {<<"b">>, <<"c">>, Line(<<"b">>, <<"b">>)}]

LineAnchors ==
  [type : {"line"},
   value : {<<"1">>, <<"2">>, <<"0">>, <<"9">>, <<"-", "1">>, <<"b">>, <<"2", "b">>,
            <<"2", ".", "5">>, <<>>},
   content : OtherContents]

RegexAnchors == [type : {"regex"}, value : {<<"a">>}, content : {<<"b">>}]

\* the anchors asked of the handler of file-handlers.ts: those of its four
\* cases in full, and one each of the types it has no case for
Anchors ==
  HeadingAnchors \cup TextMatchAnchors \cup BlockAnchors \cup FrontmatterAnchors
    \cup {a \in LineAnchors : a.value = <<"1">> /\ a.content = <<"b">>}
    \cup RegexAnchors

\* the anchors asked of the handler with the line case: the line anchors in
\* full, one each of the cases it shares with the other handler (their
\* resolvers are the same code), and one each of the types it has no case for
AnchorsLine ==
  LineAnchors
    \cup {a \in HeadingAnchors \cup TextMatchAnchors \cup BlockAnchors \cup FrontmatterAnchors :
            a.value = <<"a">> /\ a.content = <<"b">>}
    \cup RegexAnchors

\* the requests made of a vault: every path and create_if_missing while the
\* note does not exist, the note with the default create_if_missing once it does
PatchArgs(f, anchors) ==
  {[path |-> p, anchor_type |-> a.type, anchor_value |-> a.value,
    content |-> a.content, position |-> pos, create_if_missing |-> c] :
     p \in (IF fileExists(f, NotePath) THEN {NotePath} ELSE {NotePath, JournalPath}),
     a \in anchors, pos \in Positions,
     c \in (IF fileExists(f, NotePath) THEN {TRUE} ELSE BOOLEAN)}

\* the lines of a hunk that has old lines: a context line followed by a line
\* replaced by two (one line more), and a deleted line (one line less)
HunkBodies ==
  {<<[kind |-> "context", text |-> PlainA], [kind |-> "delete", text |-> PlainA],
     [kind |-> "insert", text |-> <<"b">>], [kind |-> "insert", text |-> <<"b">>]>>,
   <<[kind |-> "delete", text |-> PlainA]>>}

\* the lines of a pure insertion
InsertionBody == <<[kind |-> "insert", text |-> <<"b">>]>>

Hunk(s, b) ==
  [oldStart |-> s, oldCount |-> Len(SelectKinds(b, {"context", "delete"})),
   newStart |-> IF s = 0 THEN 1 ELSE s, newCount |-> Len(SelectKinds(b, {"context", "insert"})),
   lines |-> b]

\* hunks at every line of a document, and pure insertions (oldCount = 0)
\* after every line and at the top (oldStart = 0)
Hunks ==
  {Hunk(s, b) : s \in 1..MaxDocLines, b \in HunkBodies}
    \cup {Hunk(s, InsertionBody) : s \in 0..MaxDocLines}

\* the diffs: hunks in the order of the document, none reaching into the next
Diffs == {d \in SeqsUpTo(Hunks, MaxHunks) :
            \A k \in 1..(Len(d) - 1) :
               hunkIndex(d[k]) + d[k].oldCount <= hunkIndex(d[k + 1])}

\* a number below ten, in decimal
formatNumber(n) == <<Digits[n + 1]>>

formatHunkHeader(hunk) ==
  <<"@", "@", " ", "-">> \o formatNumber(hunk.oldStart) \o <<",">> \o formatNumber(hunk.oldCount)
    \o <<" ", "+">> \o formatNumber(hunk.newStart) \o <<",">> \o formatNumber(hunk.newCount)
    \o <<" ", "@", "@">>

formatDiffLine(l) ==
  <<CASE l.kind = "insert" -> "+" [] l.kind = "delete" -> "-" [] OTHER -> " ">> \o l.text

\* the text of a diff: per hunk its header line and its lines
formatDiff(hunks) ==
  Join([k \in 1..Len(hunks) |->
          Join(<<formatHunkHeader(hunks[k])>>
               \o [j \in 1..Len(hunks[k].lines) |-> formatDiffLine(hunks[k].lines[j])])])

\* diff texts with no hunk header, or with a line that sets out to be one
\* and is not
MalformedDiffs ==
  {<<"a">>,
   Line(<<"-", "a">>, <<"+", "b">>),
   Line(<<"@", "@", "@", " ", "a", " ", "@", "@", "@">>, Line(<<"-", "a">>, <<"+", "b">>)),
   Line(<<"@", "@", " ", "-", "1", ",", "1", " ", "+", "1", ",", "1", " ", "@", "@">>,
        Line(<<"-", "a">>,
             Line(<<"@", "@", " ", "-", "a", " ", "@", "@">>, <<"+", "b">>))),
   <<>>}

\* diff texts whose header leaves the counts out, and one with lines before
\* its header
TerseDiffs ==
  {Line(<<"@", "@", " ", "-", "1", " ", "+", "1", " ", "@", "@">>, Line(<<"-", "a">>, <<"+", "b">>)),
   Line(<<"-", "-", "-", " ", "a">>,
        Line(<<"@", "@", " ", "-", "1", ",", "1", " ", "+", "1", ",", "1", " ", "@", "@">>,
             Line(<<"-", "a">>, <<"+", "b">>)))}

DiffTexts == {formatDiff(d) : d \in Diffs} \cup MalformedDiffs \cup TerseDiffs

\* the diffs asked of a vault: of the note once it exists, of either path
\* while it does not
DiffArgs(f) ==
  {[path |-> p, diff |-> d] :
     p \in (IF fileExists(f, NotePath) THEN {NotePath} ELSE {NotePath, JournalPath}),
     d \in DiffTexts}

----------------------------------------------------------------------------
(* The specification: a vault, and one handler call made of it             *)

Init ==
  /\ \/ /\ files \in {(NotePath :> d) @@ (TemplatePath :> TemplateContent) : d \in Docs}
        /\ config = Config
     \/ /\ files \in {(TemplatePath :> TemplateContent), <<>>}
        /\ config \in {Config, NoConfig}
  /\ last = [op |-> "none"]
  /\ calls = <<>>

Called(op, args, out) ==
  /\ files' = out.files
  /\ last' = [op |-> op, args |-> args, before |-> files,
              wrote |-> out.wrote, response |-> out.response]
  /\ UNCHANGED <<config, calls>>

HandlePatchContent ==
  /\ last.op = "none"
  /\ \E args \in PatchArgs(files, Anchors) :
        Called("patch-content", args, handlePatchContent(files, config, args))

HandlePatchContentLine ==
  /\ last.op = "none"
  /\ \E args \in PatchArgs(files, AnchorsLine) :
        Called("patch-content-line", args, handlePatchContentLine(files, config, args))

HandleApplyDiffPatch ==
  /\ last.op = "none"
  /\ \E args \in DiffArgs(files) :
        Called("apply-diff-patch", args, handleApplyDiffPatch(files, args))

Next == HandlePatchContent \/ HandlePatchContentLine

Spec == Init /\ [][Next]_vars

\* the vaults diffs are asked of: the note with one of the documents, or no
\* note at all
InitDiff ==
  /\ files \in {(NotePath :> d) : d \in DiffDocs} \cup {<<>>}
  /\ config = NoConfig
  /\ last = [op |-> "none"]
  /\ calls = <<>>

NextDiff == HandleApplyDiffPatch

SpecDiff == InitDiff /\ [][NextDiff]_vars

----------------------------------------------------------------------------
(* The specification of the file handlers: a vault of a few notes, and one *)
(* call of create-note, move-note, append-content or patch-content         *)

OtherPath == <<"Notes/", "o", ".md">>

\* the notes of these vaults: the empty note, a line without and with its
\* newline, and a heading with a line under it
FileDocs == {<<>>, PlainA, PlainA \o <<NL>>, Line(HeadingA, PlainA)}

\* a vault with the given notes, a path left out where the note is None
None == <<"none">>

VaultOf(entries) ==
  LET held == {k \in 1..Len(entries) : entries[k][2] # None}
  IN [p \in {entries[k][1] : k \in held} |->
        entries[CHOOSE k \in held : entries[k][1] = p][2]]

FileVaults ==
  {VaultOf(<<<<NotePath, n>>, <<OtherPath, o>>, <<JournalPath, j>>, <<TemplatePath, t>>>>) :
     n \in FileDocs \cup {None}, o \in {<<"b">>, None}, j \in {PlainA, None},
     t \in {TemplateContent, None}}

FilePaths == {NotePath, OtherPath, JournalPath}

CreateArgs == [path : {NotePath, JournalPath}, content : {<<>>, <<"b">>}, overwrite : BOOLEAN]

MoveArgs == [source_path : FilePaths, destination_path : FilePaths, overwrite : BOOLEAN]

AppendArgs ==
  [path : {NotePath, JournalPath, DotPath}, content : {<<>>, <<"b">>, <<"b", NL>>},
   newline : BOOLEAN, create_if_missing : BOOLEAN]

FilePatchArgs ==
  {[path |-> p, anchor_type |-> a.type, anchor_value |-> a.value,
    content |-> a.content, position |-> "after", create_if_missing |-> c] :
     p \in {NotePath, JournalPath, DotPath},
     a \in {a \in HeadingAnchors \cup FrontmatterAnchors \cup RegexAnchors :
              a.value = <<"a">> /\ a.content = <<"b">>},
     c \in BOOLEAN}

InitFiles ==
  /\ files \in FileVaults
  /\ config \in {Config, NoConfig}
  /\ last = [op |-> "none"]
  /\ calls = <<>>

CreateNote ==
  /\ last.op = "none"
  /\ \E args \in CreateArgs : Called("create-note", args, handleCreateNote(files, args))

MoveNote ==
  /\ last.op = "none"
  /\ \E args \in MoveArgs : Called("move-note", args, handleMoveNote(files, args))

AppendContent ==
  /\ last.op = "none"
  /\ \E args \in AppendArgs :
        Called("append-content", args, handleAppendContent(files, config, args))

PatchContent ==
  /\ last.op = "none"
  /\ \E args \in FilePatchArgs :
        Called("patch-content", args, handlePatchContent(files, config, args))

NextFiles == CreateNote \/ MoveNote \/ AppendContent \/ PatchContent

SpecFiles == InitFiles /\ [][NextFiles]_vars

----------------------------------------------------------------------------
(* The specification of interleaved invocations: two handler calls on one  *)
(* vault, each a sequence of steps that ends at an await of the vault.     *)
(* calls[i] holds the arguments of invocation i, its position pc, and its   *)
(* local variables: exists, the content it has read, its response.         *)

Invocation(op, args) ==
  [op |-> op, args |-> args, pc |-> "start", exists |-> FALSE, source |-> "none",
   content |-> <<>>, success |-> FALSE, error |-> "none", written |-> <<>>, wroteAt |-> 0]

\* the number of vault.writeFile calls made so far
WritesSoFar == Cardinality({i \in DOMAIN calls : calls[i].wroteAt > 0})

Returned(call, error) == [call EXCEPT !.pc = "done", !.success = FALSE, !.error = error]

\* const exists = await vault.fileExists(args.path), and the throw when the
\* file is missing and must not be created
patchCheck(f, call) ==
  LET exists == fileExists(f, call.args.path)
  IN IF ~exists /\ call.args.create_if_missing = FALSE
     THEN Returned(call, "File does not exist")
     ELSE [call EXCEPT !.pc = "checked", !.exists = exists]

\* getOrInitializeContent up to its await of vault.fileExists: what the
\* content is going to be read from
patchLookup(f, cfg, call) ==
  [call EXCEPT !.pc = "looked",
               !.source = IF fileExists(f, call.args.path) THEN "file"
                          ELSE IF ~cfg.present THEN "empty"
                          ELSE IF journalPathMatch(cfg.journalPathTemplate, call.args.path) = <<>>
                          THEN "empty" ELSE "template"]

\* getOrInitializeContent from there to its return: vault.readFile of the
\* file or of the template
patchRead(f, cfg, call) ==
  LET read == IF call.source = "file" THEN readFile(f, call.args.path)
              ELSE IF call.source = "template"
              THEN LET template == readFile(f, cfg.journalFileTemplate)
                   IN IF ~template.ok THEN template
                      ELSE [ok |-> TRUE,
                            value |-> replaceDate(template.value,
                                        journalPathMatch(cfg.journalPathTemplate,
                                                         call.args.path)[1])]
              ELSE [ok |-> TRUE, value |-> <<>>]
  IN IF ~read.ok THEN Returned(call, read.error.text)
     ELSE [call EXCEPT !.pc = "read", !.content = read.value]

\* a patch computed from the stored file instead of the content read
patchOutput_fromStored(f, call) ==
  patchDispatch(IF fileExists(f, call.args.path) THEN f[call.args.path] ELSE call.content,
                call.args)

\* the switch on anchor_type, applied to the content the invocation read
patchOutput(f, call) == patchDispatch(call.content, call.args)

\* the invocation after its await vault.writeFile(args.path, patchResult.content)
patchWrite(f, call, writes) ==
  LET patchResult == patchOutput(f, call)
  IN IF ~patchResult.ok THEN Returned(call, patchResult.error.text)
     ELSE [call EXCEPT !.pc = "done", !.success = TRUE,
                       !.written = patchResult.content, !.wroteAt = writes + 1]

\* create-note: const exists = await vault.fileExists(args.path), and the
\* throw when the file exists and is not to be overwritten
createCheck(f, call) ==
  LET exists == fileExists(f, call.args.path)
  IN IF exists /\ ~call.args.overwrite
     THEN Returned(call, "File already exists. Set overwrite=true to replace it.")
     ELSE [call EXCEPT !.pc = "checked", !.exists = exists]

\* create-note after its await vault.writeFile(args.path, args.content)
createWrite(call, writes) ==
  [call EXCEPT !.pc = "done", !.success = TRUE,
               !.written = call.args.content, !.wroteAt = writes + 1]

RacePatchArgs ==
  {[path |-> NotePath, anchor_type |-> a.type, anchor_value |-> <<"a">>,
    content |-> a.content, position |-> pos, create_if_missing |-> TRUE] :
     a \in {a \in HeadingAnchors \cup FrontmatterAnchors :
              a.value = <<"a">> /\ a.content \in {<<"b">>, <<"c">>}},
     pos \in {"after", "replace"}}

RaceCreateArgs ==
  [path : {NotePath}, content : {<<"b">>, <<"c">>}, overwrite : BOOLEAN]

Invocations ==
  {Invocation("patch-content", args) : args \in RacePatchArgs}
    \cup {Invocation("create-note", args) : args \in RaceCreateArgs}

InitRace ==
  /\ files \in {(NotePath :> Line(HeadingA, PlainA)), (NotePath :> <<>>), <<>>}
  /\ config = NoConfig
  /\ last = [op |-> "none"]
  /\ calls \in [1..2 -> Invocations]

Step(i, call) ==
  /\ calls' = [calls EXCEPT ![i] = call]
  /\ UNCHANGED <<config, last>>

PatchCheck(i) ==
  /\ calls[i].op = "patch-content" /\ calls[i].pc = "start"
  /\ Step(i, patchCheck(files, calls[i]))
  /\ UNCHANGED files

PatchLookup(i) ==
  /\ calls[i].op = "patch-content" /\ calls[i].pc = "checked"
  /\ Step(i, patchLookup(files, config, calls[i]))
  /\ UNCHANGED files

PatchRead(i) ==
  /\ calls[i].op = "patch-content" /\ calls[i].pc = "looked"
  /\ Step(i, patchRead(files, config, calls[i]))
  /\ UNCHANGED files

PatchWrite(i) ==
  /\ calls[i].op = "patch-content" /\ calls[i].pc = "read"
  /\ LET call == patchWrite(files, calls[i], WritesSoFar)
     IN /\ Step(i, call)
        /\ files' = IF call.success THEN writeFile(files, call.args.path, call.written)
                    ELSE files

CreateCheck(i) ==
  /\ calls[i].op = "create-note" /\ calls[i].pc = "start"
  /\ Step(i, createCheck(files, calls[i]))
  /\ UNCHANGED files

CreateWrite(i) ==
  /\ calls[i].op = "create-note" /\ calls[i].pc = "checked"
  /\ LET call == createWrite(calls[i], WritesSoFar)
     IN /\ Step(i, call)
        /\ files' = writeFile(files, call.args.path, call.written)

NextRace ==
  \E i \in 1..2 :
     \/ PatchCheck(i) \/ PatchLookup(i) \/ PatchRead(i) \/ PatchWrite(i)
     \/ CreateCheck(i) \/ CreateWrite(i)

SpecRace == InitRace /\ [][NextRace]_vars

----------------------------------------------------------------------------
(* The specification of calls made one after the other: calls holds the    *)
(* calls made so far, each with the vault it started from                  *)

\* the largest number of calls made in turn
MaxCalls == 2

CalledInTurn(op, args, out) ==
  /\ files' = out.files
  /\ last' = [op |-> op, args |-> args, before |-> files,
              wrote |-> out.wrote, response |-> out.response]
  /\ calls' = Append(calls, last')
  /\ UNCHANGED config

InitAppend ==
  /\ files \in {VaultOf(<<<<NotePath, n>>, <<TemplatePath, TemplateContent>>>>) :
                   n \in FileDocs \cup {None}}
  /\ config \in {Config, NoConfig}
  /\ last = [op |-> "none"]
  /\ calls = <<>>

AppendInTurn ==
  /\ Len(calls) < MaxCalls
  /\ \E args \in AppendArgs :
        CalledInTurn("append-content", args, handleAppendContent(files, config, args))

NextAppend == AppendInTurn

SpecAppend == InitAppend /\ [][NextAppend]_vars

----------------------------------------------------------------------------
(* The specification of the journal: log-journal-entry calls made one      *)
(* after the other on one day                                              *)

SectionHeading == <<"#", "#", " ", "J">>
DeepSectionHeading == <<"#", "#", "#", " ", "J">>
NextSectionHeading == <<"#", "#", " ", "z">>

\* the clock readings of the day of JournalPath
Clock == {[date |-> "2025-01-02", hours |-> h, minutes |-> m] :
            h \in {0, 13}, m \in {5}}

LogArgs ==
  [activity_type : {<<"r", "e", "s", "e", "a", "r", "c", "h">>},
   summary : {<<"a">>, <<"b">>, <<"#", " ", "x">>},
   key_topics : {<<>>, <<<<"A", " ", "b", "!">>, <<"c">>>>},
   outputs : {<<>>, <<<<"o">>, <<"p">>>>},
   project : {<<>>, <<"p">>}]

InitJournal ==
  /\ \E s \in {SectionHeading, DeepSectionHeading} :
        /\ config = [Config EXCEPT !.journalActivitySection = s]
        /\ files \in {VaultOf(<<<<JournalPath, j>>, <<TemplatePath, t>>>>) :
                        j \in {None, PlainA, s, Line(s, NextSectionHeading),
                               Line(s, Line(PlainA, NextSectionHeading))},
                        t \in {TemplateContent, None}}
  /\ last = [op |-> "none"]
  /\ calls = <<>>

LogJournalEntry ==
  /\ Len(calls) < MaxCalls
  /\ \E args \in LogArgs, now \in Clock :
        CalledInTurn("log-journal-entry", args @@ [now |-> now],
                     handleLogJournalEntry(files, config, args, now))

NextJournal == LogJournalEntry

SpecJournal == InitJournal /\ [][NextJournal]_vars

----------------------------------------------------------------------------
(* What the claims speak of, read off the last call                        *)

IsPatch == last.op \in {"patch-content", "patch-content-line"}

Succeeded == last.response.success

\* a successful patch-content call with the given anchor type
Patched(type) == IsPatch /\ Succeeded /\ last.args.anchor_type = type

\* a patch-content call with the given anchor type that got as far as its
\* anchor resolver: the file was there or could be created, and was read
Patching(type) ==
  /\ IsPatch /\ last.args.anchor_type = type
  /\ fileExists(last.before, last.args.path) \/ last.args.create_if_missing
  /\ getOrInitializeContent(last.before, last.args.path, config).ok

\* the lines of the document the call started from
DocLines == Split(getOrInitializeContent(last.before, last.args.path, config).value)

\* the lines of the stored file after the call
ResultLines == Split(files[last.args.path])

ContentLines == Split(last.args.content)

Preview == last.response.data.change_preview

\* the 1-based number of the first line a heading or block anchor matches
HeadingLine == FirstIndex(DocLines, LAMBDA l : headingRegex(last.args.anchor_value, l))
BlockLine == FirstIndex(DocLines, LAMBDA l : blockRegex(last.args.anchor_value, l))

\* the 1-based start lines of the windows of the document that equal the
\* lines of the text pattern
WindowStarts ==
  LET pl == Split(last.args.anchor_value)
      doc == DocLines
  IN {s \in 1..(Len(doc) - Len(pl) + 1) :
        \A j \in 1..Len(pl) : doc[s + j - 1] = pl[j]}

PatternLength == Len(Split(last.args.anchor_value))

\* the pattern has a character that is not white space
NonBlankPattern == \E k \in 1..Len(last.args.anchor_value) : ~IsSpace(last.args.anchor_value[k])

VaultUnchanged == files = last.before /\ ~last.wrote

----------------------------------------------------------------------------
\* an apply-diff-patch call on a file that exists
DiffCalled ==
  /\ last.op = "apply-diff-patch"
  /\ fileExists(last.before, last.args.path)

\* the diff text of the last call, parsed
DiffParse == parseDiff(last.args.diff)

\* the lines of the file the diff was asked of
OldLines == Split(last.before[last.args.path])

\* C1: apply-diff-patch is all-or-nothing: when some hunk's context and
\* deletion lines differ from the document lines at the hunk's position, the
\* call fails with the 'does not match' error and the stored file is what it
\* was before the call, also when earlier hunks of the diff do match.
C1_DiffAtomic ==
  DiffCalled =>
    LET parsed == DiffParse
        doc == OldLines
    IN (/\ parsed.ok
        /\ \E k \in 1..Len(parsed.value) :
             LET hunk == parsed.value[k]
                 old == hunkOldLines(hunk)
             IN ~(/\ hunk.oldStart - 1 + Len(old) <= Len(doc)
                  /\ \A j \in 1..Len(old) : hunk.oldStart - 1 + j >= 1
                                            /\ doc[hunk.oldStart - 1 + j] = old[j]))
       => /\ ~Succeeded
          /\ last.response.error.text = "Failed to apply patch: diff does not match file content"
          /\ VaultUnchanged

\* a diff whose first hunk deletes a line that is there and whose second
\* hunk deletes a line that is not has been refused
C1_Witness ==
  /\ DiffCalled
  /\ LET parsed == DiffParse
     IN /\ parsed.ok
        /\ Len(parsed.value) = 2
        /\ parsed.value[1].oldCount > 0
        /\ hunkMatches(OldLines, parsed.value[1])
        /\ hunkInserted(parsed.value[1]) # <<>>
        /\ ~hunkMatches(OldLines, parsed.value[2])
  /\ ~Succeeded

\* C2: a patch-content call that returns success=false has not called
\* vault.writeFile: the vault, and with it the target file's existence and
\* content, is as before the call.
C2_FailedPatchWritesNothing ==
  (IsPatch /\ ~Succeeded) => VaultUnchanged

\* a patch on a missing journal note that could be created from the template
\* has failed for want of its heading
C2_Witness ==
  /\ IsPatch /\ ~Succeeded
  /\ ~fileExists(last.before, last.args.path)
  /\ last.args.create_if_missing
  /\ getOrInitializeContent(last.before, last.args.path, config).ok
  /\ getOrInitializeContent(last.before, last.args.path, config).value # <<>>
  /\ last.response.error.text = "Heading not found"

\* C3 as stated: a text_match pattern whose lines equal windows of the
\* document at N > 1 start indices (overlapping ones counted) makes the patch
\* fail with 'found N times' and exactly N 'Lines s-e' entries in ascending
\* order of start, the document not modified.
AmbiguityReported ==
  LET n == Cardinality(WindowStarts)
      err == last.response.error
  IN /\ ~Succeeded
     /\ err.text = "Text pattern found N times in file"
     /\ err.count = n
     /\ Len(err.entries) = n
     /\ \A k \in 1..n :
          /\ err.entries[k].startLine \in WindowStarts
          /\ err.entries[k].endLine = err.entries[k].startLine + PatternLength - 1
          /\ k < n => err.entries[k].startLine < err.entries[k + 1].startLine
     /\ VaultUnchanged

AmbiguousTextMatch ==
  /\ last.op = "patch-content"
  /\ Patching("text_match")
  /\ Cardinality(WindowStarts) > 1

C3_AsStated == AmbiguousTextMatch => AmbiguityReported

\* C3 (amended): the same for a pattern that has a character other than
\* white space; an empty or blank pattern is refused as 'cannot be empty'
\* whatever the number of windows it equals.
C3_AmbiguityListed ==
  /\ (AmbiguousTextMatch /\ NonBlankPattern) => AmbiguityReported
  /\ (AmbiguousTextMatch /\ ~NonBlankPattern) =>
        /\ ~Succeeded
        /\ last.response.error.text = "Text pattern cannot be empty"
        /\ VaultUnchanged

\* a two-line pattern found at two overlapping windows has been refused
C3_Witness ==
  /\ AmbiguousTextMatch /\ NonBlankPattern
  /\ PatternLength = 2
  /\ WindowStarts = {1, 2}
  /\ ~Succeeded

----------------------------------------------------------------------------
\* the first heading line of any level after the matched heading, or the
\* line after the last one
NextHeading ==
  LET doc == DocLines
      later == {k \in (HeadingLine + 1)..Len(doc) : anyHeadingRegex(doc[k])}
  IN IF later = {} THEN Len(doc) + 1
     ELSE CHOOSE k \in later : \A j \in later : k <= j

\* the content without its first line, as lines
RestOfContent == Split(Join(Tail(ContentLines)))

\* the content, less its first line when that line with the white space at
\* its ends removed is a heading line titled as the anchor
StrippedLines ==
  IF headingRegex(last.args.anchor_value, Trim(ContentLines[1]))
  THEN RestOfContent ELSE ContentLines

HeadingReplaced(newLines) ==
  LET doc == DocLines
  IN ResultLines = SubSeq(doc, 1, HeadingLine) \o newLines
                     \o SubSeq(doc, NextHeading, Len(doc))

\* C4 as stated: a heading-anchored replace removes exactly the lines between
\* the matched heading and the next heading of any level (or the end), puts
\* the new content in their place, keeps the heading line and every line
\* before it and from the next heading on.
C4_AsStated ==
  (Patched("heading") /\ last.args.position = "replace") => HeadingReplaced(ContentLines)

\* C4 (amended): the same, the content put in place being the new content
\* without its first line when that line, trimmed, repeats the anchor heading.
C4_HeadingReplaceScope ==
  (Patched("heading") /\ last.args.position = "replace") => HeadingReplaced(StrippedLines)

\* a section with a body and a following heading of another level has been
\* replaced
C4_Witness ==
  /\ Patched("heading") /\ last.args.position = "replace"
  /\ NextHeading > HeadingLine + 1
  /\ NextHeading <= Len(DocLines)
  /\ ~headingRegex(last.args.anchor_value, DocLines[NextHeading])
  /\ DocLines[NextHeading][2] = "#"

----------------------------------------------------------------------------
\* the lines the preview reports as inserted, read from the stored file
RangeStart == Preview.line_range.start
RangeEnd == Preview.line_range.end

RangeInResult == 1 <= RangeStart /\ RangeStart <= RangeEnd /\ RangeEnd <= Len(ResultLines)

\* the result is the document with the lines of the reported range inserted
\* before its line s, every line of the document kept in place
InsertedBefore(s) ==
  LET doc == DocLines
      result == ResultLines
  IN /\ RangeInResult
     /\ RangeStart = s
     /\ result = SubSeq(doc, 1, s - 1)
                   \o SubSeq(result, RangeStart, RangeEnd)
                   \o SubSeq(doc, s, Len(doc))

\* the start line of the one window that equals the text pattern
TheWindow == CHOOSE s \in WindowStarts : TRUE

\* C5: for heading, block and text_match anchors, before puts the inserted
\* content directly before the first line of the anchor and after directly
\* after its last line; deleting the inserted lines from the result gives
\* the original document.
C5_InsertKeepsDocument ==
  /\ (Patched("heading") /\ last.args.position = "before") =>
        InsertedBefore(HeadingLine) /\ Preview.changed_content = StrippedLines
  /\ (Patched("heading") /\ last.args.position = "after") =>
        InsertedBefore(HeadingLine + 1) /\ Preview.changed_content = StrippedLines
  /\ (Patched("block") /\ last.args.position = "before") =>
        InsertedBefore(BlockLine) /\ Preview.changed_content = ContentLines
  /\ (Patched("block") /\ last.args.position = "after") =>
        InsertedBefore(BlockLine + 1) /\ Preview.changed_content = ContentLines
  /\ (Patched("text_match") /\ last.args.position = "before") =>
        InsertedBefore(TheWindow) /\ Preview.changed_content = ContentLines
  /\ (Patched("text_match") /\ last.args.position = "after") =>
        InsertedBefore(TheWindow + PatternLength) /\ Preview.changed_content = ContentLines
  /\ (IsPatch /\ Succeeded /\ last.args.anchor_type \in {"heading", "block", "text_match"}
        /\ last.args.position \in {"before", "after"}) =>
        SubSeq(ResultLines, RangeStart, RangeEnd) = Preview.changed_content

\* content has been inserted after a two-line text pattern that is followed
\* by another line
C5_Witness ==
  /\ Patched("text_match") /\ last.args.position = "after"
  /\ PatternLength = 2
  /\ WindowStarts = {1}
  /\ Len(DocLines) = 3

\* C6: after every successful patch the reported lineRange lies within the
\* resulting document and its lines are exactly the reported changedLines.
C6_RangeHoldsChangedLines ==
  (IsPatch /\ Succeeded) =>
     /\ RangeInResult
     /\ SubSeq(ResultLines, RangeStart, RangeEnd) = Preview.changed_content

\* C7: replace with a block or text_match anchor substitutes exactly the
\* matched span (one line for a block id, the whole window for a text
\* pattern) with the new content; every other line stays in place.
C7_ReplaceExactSpan ==
  /\ (Patched("block") /\ last.args.position = "replace") =>
        ResultLines = SubSeq(DocLines, 1, BlockLine - 1) \o ContentLines
                        \o SubSeq(DocLines, BlockLine + 1, Len(DocLines))
  /\ (Patched("text_match") /\ last.args.position = "replace") =>
        ResultLines = SubSeq(DocLines, 1, TheWindow - 1) \o ContentLines
                        \o SubSeq(DocLines, TheWindow + PatternLength, Len(DocLines))

\* a two-line window with a line before it has been replaced
C7_Witness ==
  /\ Patched("text_match") /\ last.args.position = "replace"
  /\ PatternLength = 2
  /\ WindowStarts = {2}
  /\ Len(ContentLines) = 2

----------------------------------------------------------------------------
\* a string with its white space removed and its letters in lower case
Fold(s) ==
  LET kept == SelectSeq(s, LAMBDA c : ~IsSpace(c))
  IN [k \in 1..Len(kept) |-> Lower(kept[k])]

IsProperSubstring(p, l) ==
  /\ Len(p) < Len(l)
  /\ \E o \in 0..(Len(l) - Len(p)) : \A k \in 1..Len(p) : l[o + k] = p[k]

\* the one-line pattern is not the line, but differs from it only in white
\* space or letter case, or is a proper substring of it
NearMiss(p, l) == p # l /\ (Fold(p) = Fold(l) \/ IsProperSubstring(p, l))

NotFound ==
  /\ ~Succeeded
  /\ last.response.error.text = "Text pattern not found in file"
  /\ VaultUnchanged

TextMatching == last.op = "patch-content" /\ Patching("text_match")

\* C8 as stated: a pattern that equals no window of the document and differs
\* from a line only in white space or letter case, or is a proper substring
\* of a line, makes the patch fail with 'Text pattern not found'.
C8_AsStated ==
  (/\ TextMatching
   /\ PatternLength = 1
   /\ WindowStarts = {}
   /\ \E k \in 1..Len(DocLines) : NearMiss(last.args.anchor_value, DocLines[k]))
  => NotFound

\* C8 (amended): a text_match patch succeeds only when exactly one window of
\* consecutive document lines is string-equal to the pattern lines; a
\* pattern with a character other than white space that equals no window
\* fails with 'Text pattern not found', and a pattern of white space only
\* fails with 'Text pattern cannot be empty'.
C8_ExactMatchOnly ==
  /\ (TextMatching /\ Succeeded) => Cardinality(WindowStarts) = 1
  /\ (TextMatching /\ NonBlankPattern /\ WindowStarts = {}) => NotFound
  /\ (TextMatching /\ ~NonBlankPattern) =>
        /\ ~Succeeded
        /\ last.response.error.text = "Text pattern cannot be empty"
        /\ VaultUnchanged

\* a pattern that differs from a line of the document in letter case only
\* has been reported as not found
C8_Witness ==
  /\ TextMatching /\ NonBlankPattern
  /\ PatternLength = 1
  /\ WindowStarts = {}
  /\ \E k \in 1..Len(DocLines) :
        /\ Fold(last.args.anchor_value) = Fold(DocLines[k])
        /\ Len(last.args.anchor_value) = Len(DocLines[k])
  /\ ~Succeeded

----------------------------------------------------------------------------
\* the lines of the reported range, read from the stored file
WrittenLines == SubSeq(ResultLines, RangeStart, RangeEnd)

\* C9 as stated: with a heading anchor the first line of the new content is
\* dropped exactly when that line is itself a heading line, of any level,
\* whose text equals the anchor heading text case-insensitively; no other
\* line is dropped.
C9_AsStated ==
  Patched("heading") =>
     /\ RangeInResult
     /\ WrittenLines = (IF headingRegex(last.args.anchor_value, ContentLines[1])
                        THEN RestOfContent ELSE ContentLines)

\* C9 (amended): the first line is dropped exactly when, with the white
\* space at its two ends removed, it is such a heading line.
C9_StripFirstLineOnly ==
  Patched("heading") =>
     /\ RangeInResult
     /\ WrittenLines = StrippedLines
     /\ Preview.changed_content = StrippedLines

\* a first line repeating the anchor heading at another level and in another
\* letter case has been dropped, the second line written
C9_Witness ==
  /\ Patched("heading")
  /\ Len(ContentLines) = 2
  /\ headingRegex(last.args.anchor_value, ContentLines[1])
  /\ ContentLines[1] # DocLines[HeadingLine]
  /\ WrittenLines = <<ContentLines[2]>>

----------------------------------------------------------------------------
\* the new content stands in the stored file at the reported start line
WrittenAsSupplied(supplied) ==
  /\ RangeStart >= 1
  /\ RangeStart + Len(supplied) - 1 <= Len(ResultLines)
  /\ SubSeq(ResultLines, RangeStart, RangeStart + Len(supplied) - 1) = supplied

OtherAnchorsAsSupplied ==
  /\ \A type \in {"block", "text_match", "line"} :
        Patched(type) => WrittenAsSupplied(ContentLines)
                         /\ Len(ResultLines) = Len(DocLines) + Len(ContentLines)
                              - (IF last.args.position # "replace" THEN 0
                                 ELSE IF type = "text_match" THEN PatternLength ELSE 1)
  /\ Patched("frontmatter") =>
        WrittenAsSupplied(Split(last.args.anchor_value \o <<":", " ">> \o last.args.content))

\* C10 as stated: the strip applies only to heading anchors with position
\* before or after; with replace on a heading anchor and with block,
\* text_match, line and frontmatter anchors the content is written as supplied.
C10_AsStated ==
  /\ (Patched("heading") /\ last.args.position = "replace") =>
        HeadingReplaced(ContentLines)
  /\ OtherAnchorsAsSupplied

\* C10 (amended): the strip applies only to heading anchors, at every
\* position (before, after and replace); with block, text_match, line and
\* frontmatter anchors the content is written exactly as supplied.
C10_StripHeadingAnchorsOnly ==
  /\ (Patched("heading") /\ last.args.position = "replace") =>
        HeadingReplaced(StrippedLines)
  /\ OtherAnchorsAsSupplied

\* content whose first line repeats a heading of the document has been
\* written whole at a block anchor
C10_Witness ==
  /\ Patched("block")
  /\ anyHeadingRegex(ContentLines[1])
  /\ \E k \in 1..Len(DocLines) : DocLines[k] = ContentLines[1]
  /\ Len(ContentLines) = 2
  /\ WrittenLines = ContentLines

----------------------------------------------------------------------------
\* a patch-content call of the line-number variant that got as far as
\* patchAtLine
LinePatching == last.op = "patch-content-line" /\ Patching("line")

\* the anchor value is a decimal integer and nothing else: an optional minus
\* sign and one or more digits
StrictInteger(s) ==
  LET digits == IF Len(s) > 0 /\ s[1] = "-" THEN Tail(s) ELSE s
  IN Len(digits) > 0 /\ \A k \in 1..Len(digits) : IsDigit(digits[k])

\* the integer such a value denotes
IntegerOf(s) ==
  IF s[1] = "-" THEN 0 - parseDigits(Tail(s), 1, 0) ELSE parseDigits(s, 1, 0)

AnchorLine == IntegerOf(last.args.anchor_value)

LineOutOfRange(n) ==
  /\ ~Succeeded
  /\ last.response.error.text = "Line N out of range (1-L)"
  /\ last.response.error.line = n
  /\ last.response.error.last = Len(DocLines)
  /\ VaultUnchanged

\* the document with the content put at line n according to the position
LinePatched(n) ==
  LET doc == DocLines
  IN /\ Succeeded
     /\ ResultLines =
          CASE last.args.position = "before" ->
                 SubSeq(doc, 1, n - 1) \o ContentLines \o SubSeq(doc, n, Len(doc))
            [] last.args.position = "after" ->
                 SubSeq(doc, 1, n) \o ContentLines \o SubSeq(doc, n + 1, Len(doc))
            [] OTHER ->
                 SubSeq(doc, 1, n - 1) \o ContentLines \o SubSeq(doc, n + 1, Len(doc))

C11_WitnessOutOfRange ==
  /\ LinePatching /\ ~Succeeded
  /\ last.args.anchor_value = <<"-", "1">>
  /\ last.response.error.text = "Line N out of range (1-L)"

InvalidLineNumber ==
  /\ ~Succeeded
  /\ last.response.error.text = "Invalid line number. Line number must be an integer."
  /\ VaultUnchanged

\* C12: a line anchor whose value is not strictly an integer string ('abc',
\* the empty string, '2abc', '2.5') makes the patch fail with 'Invalid line
\* number ... must be an integer' and leaves the file unchanged; only values
\* that are strictly an integer reach the range check.
C12_StrictLineNumber ==
  (LinePatching /\ ~StrictInteger(last.args.anchor_value)) => InvalidLineNumber

\* what the handler does: a value is refused as invalid exactly when it does
\* not begin (after white space and a sign) with a digit; a value that begins
\* with digits is taken as the number those digits denote
C12_LeadingDigitsAccepted ==
  LinePatching =>
     IF parseInt(last.args.anchor_value).nan
     THEN InvalidLineNumber
     ELSE LET n == parseInt(last.args.anchor_value).val
          IN IF 1 <= n /\ n <= Len(DocLines) THEN LinePatched(n) ELSE LineOutOfRange(n)

\* the anchor value '2b' has changed line 2 of the document
C12_LenientWitness ==
  /\ LinePatching /\ Succeeded
  /\ last.args.anchor_value = <<"2", "b">>
  /\ last.args.position = "replace"
  /\ ResultLines[2] # DocLines[2]

----------------------------------------------------------------------------
AnchorTypes == {"heading", "block", "frontmatter", "text_match", "line"}

\* a patch-content call that got as far as the switch on anchor_type
Dispatching ==
  /\ IsPatch
  /\ fileExists(last.before, last.args.path) \/ last.args.create_if_missing
  /\ getOrInitializeContent(last.before, last.args.path, config).ok

UnknownAnchorType ==
  /\ ~Succeeded
  /\ last.response.error.text = "Unknown anchor type"

\* the anchor types the switch of the called variant of the handler has a
\* case for
VariantAnchorTypes ==
  IF last.op = "patch-content"
  THEN {"heading", "text_match", "block", "frontmatter"}
  ELSE {"heading", "line", "block", "frontmatter"}

\* C13: patch-content accepts each of the five anchor types heading, block,
\* frontmatter, text_match and line; the 'Unknown anchor type' failure is
\* returned only for a value outside these five.
C13_FiveAnchorTypes ==
  Dispatching => (UnknownAnchorType <=> last.args.anchor_type \notin AnchorTypes)

\* what the handlers do: each variant has four cases, and answers 'Unknown
\* anchor type' for every other value, the fifth anchor type included
C13_FourCasesPerVariant ==
  Dispatching => (UnknownAnchorType <=> last.args.anchor_type \notin VariantAnchorTypes)

\* a line anchor has been refused as an unknown anchor type
C13_LineUnknownWitness ==
  /\ Dispatching /\ last.op = "patch-content"
  /\ last.args.anchor_type = "line"
  /\ last.args.anchor_value = <<"1">>
  /\ UnknownAnchorType

----------------------------------------------------------------------------
FrontmatterPatching == Patching("frontmatter")

\* the line starts with the key and a colon
StartsWithKey(line) ==
  /\ Len(line) > Len(last.args.anchor_value)
  /\ SubSeq(line, 1, Len(last.args.anchor_value)) = last.args.anchor_value
  /\ line[Len(last.args.anchor_value) + 1] = ":"

\* the lines of 'K: V'
NewEntry == Split(last.args.anchor_value \o <<":", " ">> \o last.args.content)

\* the 1-based number of the closing '---' of a document that opens with
\* '---', 0 if the block is never closed
ClosingFence ==
  LET doc == DocLines
      fences == {k \in 2..Len(doc) : doc[k] = FrontmatterFence}
  IN IF fences = {} THEN 0 ELSE CHOOSE k \in fences : \A j \in fences : k <= j

\* the first line of the block, between line 1 and line e, that starts with
\* the key; 0 if none
KeyLineBefore(e) ==
  LET doc == DocLines
      hits == {k \in 2..(e - 1) : StartsWithKey(doc[k])}
  IN IF hits = {} THEN 0 ELSE CHOOSE k \in hits : \A j \in hits : k <= j

\* the document with line k replaced by the entry
EntryReplacesLine(k) ==
  LET doc == DocLines
  IN ResultLines = SubSeq(doc, 1, k - 1) \o NewEntry \o SubSeq(doc, k + 1, Len(doc))

\* the document with the entry inserted before line e
EntryInsertedBefore(e) ==
  LET doc == DocLines
  IN ResultLines = SubSeq(doc, 1, e - 1) \o NewEntry \o SubSeq(doc, e, Len(doc))

BlockEnd == IF ClosingFence # 0 THEN ClosingFence ELSE Len(DocLines) + 1

C14_WitnessReplace ==
  /\ FrontmatterPatching /\ Succeeded
  /\ DocLines[1] = FrontmatterFence
  /\ ClosingFence = 3
  /\ KeyLineBefore(3) = 2
  /\ ResultLines[2] = NewEntry[1]
  /\ ResultLines[2] # DocLines[2]

----------------------------------------------------------------------------
\* C15 as stated: on a document whose first line is not '---' the result is
\* the three lines '---', 'K: V', '---' followed by the original document,
\* its lines unchanged and in order.
C15_AsStated ==
  (FrontmatterPatching /\ DocLines[1] # FrontmatterFence) =>
     /\ Succeeded
     /\ ResultLines = <<FrontmatterFence>> \o NewEntry \o <<FrontmatterFence>> \o DocLines

\* C15 (amended): the result is '---', 'K: V', '---', one empty line, and
\* then the original document, its lines unchanged and in order.
C15_FrontmatterCreated ==
  (FrontmatterPatching /\ DocLines[1] # FrontmatterFence) =>
     /\ Succeeded
     /\ ResultLines = <<FrontmatterFence>> \o NewEntry \o <<FrontmatterFence, EmptyLine>>
                        \o DocLines

\* a block has been put on top of a three-line document that has a '---'
\* further down
C15_Witness ==
  /\ FrontmatterPatching /\ Succeeded
  /\ DocLines[1] # FrontmatterFence
  /\ Len(DocLines) = 3
  /\ DocLines[2] = FrontmatterFence
  /\ Len(ResultLines) = 7
  /\ ResultLines[1] = FrontmatterFence

----------------------------------------------------------------------------
\* the lines of the document a heading anchor, or a block anchor, matches
HeadingMatches ==
  LET doc == DocLines
  IN {k \in 1..Len(doc) : headingRegex(last.args.anchor_value, doc[k])}

BlockMatches ==
  LET doc == DocLines
  IN {k \in 1..Len(doc) : blockRegex(last.args.anchor_value, doc[k])}

Topmost(S) == CHOOSE k \in S : \A j \in S : k <= j

\* the first heading line of any level after line m, or the line after the
\* last one
HeadingAfter(m) ==
  LET doc == DocLines
      later == {k \in (m + 1)..Len(doc) : anyHeadingRegex(doc[k])}
  IN IF later = {} THEN Len(doc) + 1 ELSE Topmost(later)

\* the document patched at line m and nowhere else: the new lines before
\* it, after it, or in place of the span from line from to line to
PatchedAt(m, newLines, from, to) ==
  LET doc == DocLines
  IN ResultLines =
       CASE last.args.position = "before" ->
              SubSeq(doc, 1, m - 1) \o newLines \o SubSeq(doc, m, Len(doc))
         [] last.args.position = "after" ->
              SubSeq(doc, 1, m) \o newLines \o SubSeq(doc, m + 1, Len(doc))
         [] OTHER ->
              SubSeq(doc, 1, from - 1) \o newLines \o SubSeq(doc, to + 1, Len(doc))

\* C16: when several lines match a heading anchor (any # level, any letter
\* case) or a block anchor, the patch is applied at the topmost matching line
\* only, succeeds without an ambiguity error, and leaves the later matching
\* lines and the content around them unchanged.
C16_FirstMatchWins ==
  /\ (Patching("heading") /\ Cardinality(HeadingMatches) > 1) =>
        LET m == Topmost(HeadingMatches)
        IN /\ Succeeded
           /\ PatchedAt(m, StrippedLines, m + 1, HeadingAfter(m) - 1)
           /\ HeadingAfter(m) <= Topmost(HeadingMatches \ {m})
  /\ (Patching("block") /\ Cardinality(BlockMatches) > 1) =>
        LET m == Topmost(BlockMatches)
        IN /\ Succeeded
           /\ PatchedAt(m, ContentLines, m, m)

\* the section under the first of two headings titled alike, of different
\* level and letter case, has been replaced, the second heading left alone
C16_Witness ==
  /\ Patched("heading")
  /\ last.args.position = "replace"
  /\ HeadingMatches = {1, 3}
  /\ DocLines[1] # DocLines[3]
  /\ ResultLines[Len(ResultLines)] = DocLines[3]
  /\ Len(ResultLines) = 2 + Len(StrippedLines)

\* content has been inserted after the first of two lines carrying the
\* block id
C16_WitnessBlock ==
  /\ Patched("block")
  /\ last.args.position = "after"
  /\ Cardinality(BlockMatches) = 2
  /\ Len(ResultLines) = Len(DocLines) + Len(ContentLines)

----------------------------------------------------------------------------
\* the 1-based number of the first document line a hunk covers; the pure
\* insertion at the top (oldStart = 0, oldCount = 0) stands before line 1
FirstCovered(hunk) == IF hunk.oldCount = 0 THEN hunk.oldStart + 1 ELSE hunk.oldStart

\* the texts of the hunk lines of the given kinds, in the order of the hunk
TextsOf(hunk, kinds) ==
  LET kept == SelectSeq(hunk.lines, LAMBDA l : l.kind \in kinds)
  IN [k \in 1..Len(kept) |-> kept[k].text]

\* the context and deletion lines of the hunk are the oldCount lines of the
\* document at its position
HunkFits(doc, hunk) ==
  LET old == TextsOf(hunk, {"context", "delete"})
      first == FirstCovered(hunk)
  IN /\ Len(old) = hunk.oldCount
     /\ first >= 1
     /\ first + hunk.oldCount - 1 <= Len(doc)
     /\ \A j \in 1..Len(old) : doc[first + j - 1] = old[j]

\* every hunk fits the document and none reaches into the next
DiffFits(doc, hunks) ==
  /\ \A k \in 1..Len(hunks) : HunkFits(doc, hunks[k])
  /\ \A k \in 1..(Len(hunks) - 1) :
        FirstCovered(hunks[k]) + hunks[k].oldCount <= FirstCovered(hunks[k + 1])

\* the document read from line from on, each hunk from the k-th on giving
\* its context and insertion lines in place of the lines it covers
RECURSIVE Rebuilt(_, _, _, _)
Rebuilt(doc, hunks, k, from) ==
  IF k > Len(hunks) THEN SubSeq(doc, from, Len(doc))
  ELSE SubSeq(doc, from, FirstCovered(hunks[k]) - 1)
         \o TextsOf(hunks[k], {"context", "insert"})
         \o Rebuilt(doc, hunks, k + 1, FirstCovered(hunks[k]) + hunks[k].oldCount)

\* C17: when every hunk of a diff matches the document, apply-diff-patch
\* stores the document in which, for each hunk, the deletion lines are
\* removed, the insertion lines stand at the hunk's position in diff order
\* and the context lines are unchanged; every line outside all hunks is
\* unchanged and in the same order.
C17_DiffApplied ==
  DiffCalled =>
     LET parsed == DiffParse
         doc == OldLines
     IN (parsed.ok /\ DiffFits(doc, parsed.value)) =>
          /\ Succeeded
          /\ last.wrote
          /\ files[last.args.path] = Join(Rebuilt(doc, parsed.value, 1, 1))

\* a hunk with a context line, a deletion and two insertions has been applied
\* to a document with a line after the hunk
C17_Witness ==
  /\ DiffCalled /\ Succeeded
  /\ LET hunks == DiffParse.value
     IN /\ Len(hunks) = 1
        /\ hunks[1].oldStart = 1
        /\ hunks[1].oldCount = 2
        /\ Len(TextsOf(hunks[1], {"insert"})) = 2
  /\ Len(OldLines) = 3
  /\ ResultLines = <<OldLines[1], <<"b">>, <<"b">>, OldLines[3]>>

----------------------------------------------------------------------------
\* the document with the hunks from the k-th down to the first applied one
\* at a time, the last first, each at the lines of the original document it
\* names: a hunk so applied moves no line an earlier hunk refers to
RECURSIVE AppliedBottomUp(_, _, _)
AppliedBottomUp(doc, hunks, k) ==
  IF k = 0 THEN doc
  ELSE AppliedBottomUp(
         SubSeq(doc, 1, FirstCovered(hunks[k]) - 1)
           \o TextsOf(hunks[k], {"context", "insert"})
           \o SubSeq(doc, FirstCovered(hunks[k]) + hunks[k].oldCount, Len(doc)),
         hunks, k - 1)

\* the lines the hunks before the k-th add to the document, less those they
\* remove
RECURSIVE Drift(_, _)
Drift(hunks, k) ==
  IF k <= 1 THEN 0
  ELSE Drift(hunks, k - 1)
         + Len(TextsOf(hunks[k - 1], {"context", "insert"})) - hunks[k - 1].oldCount

\* C18: in a diff with several hunks each hunk's oldStart is read against
\* the original document: the result is the document with every hunk applied
\* at the lines of the original document it names, also when an earlier hunk
\* adds or deletes lines and so moves the lines a later hunk refers to.
C18_OriginalPositions ==
  DiffCalled =>
     LET parsed == DiffParse
         hunks == parsed.value
         doc == OldLines
     IN (parsed.ok /\ Len(hunks) > 1 /\ DiffFits(doc, hunks)) =>
          /\ Succeeded
          /\ files[last.args.path] = Join(AppliedBottomUp(doc, hunks, Len(hunks)))

\* a hunk that deletes line 1 has been applied together with a hunk that
\* refers to lines 2 and 3 of the original document
C18_Witness ==
  /\ DiffCalled /\ Succeeded
  /\ LET hunks == DiffParse.value
     IN /\ Len(hunks) = 2
        /\ hunks[1].oldStart = 1
        /\ TextsOf(hunks[1], {"context", "insert"}) = <<>>
        /\ hunks[2].oldStart = 2
        /\ hunks[2].oldCount = 2
  /\ ResultLines = <<OldLines[2], <<"b">>, <<"b">>>>

\* a hunk that adds a line has been applied together with a later hunk
C18_WitnessAdds ==
  /\ DiffCalled /\ Succeeded
  /\ LET hunks == DiffParse.value
     IN /\ Len(hunks) = 2
        /\ Drift(hunks, 2) > 0
        /\ hunks[2].oldStart = 3

----------------------------------------------------------------------------
\* no line of the diff text is a hunk header
NoHunkHeader(textLines) == \A k \in 1..Len(textLines) : ~parseHunkHeader(textLines[k]).ok

\* a line of the diff text sets out to be a hunk header and is not one
BadHunkHeader(textLines) ==
  \E k \in 1..Len(textLines) :
     isHeaderLike(textLines[k]) /\ ~parseHunkHeader(textLines[k]).ok

InvalidDiffFormat(text) ==
  /\ ~Succeeded
  /\ last.response.error.text = text
  /\ VaultUnchanged

\* C19: a diff text with no line matching the hunk-header grammar, or with a
\* header-like line that does not match it, is rejected as a whole with an
\* 'Invalid diff format' error that mentions the hunk header, and the file
\* is not modified.
C19_InvalidDiffRejected ==
  DiffCalled =>
     LET textLines == Split(last.args.diff)
     IN /\ BadHunkHeader(textLines) =>
              InvalidDiffFormat("Invalid diff format: invalid hunk header")
        /\ (NoHunkHeader(textLines) /\ ~BadHunkHeader(textLines)) =>
              InvalidDiffFormat("Invalid diff format: missing hunk header")

\* a diff whose first hunk fits the document and whose second header is
\* malformed has been refused
C19_Witness ==
  /\ DiffCalled
  /\ LET textLines == Split(last.args.diff)
     IN ~NoHunkHeader(textLines) /\ BadHunkHeader(textLines)
  /\ OldLines[1] = PlainA
  /\ ~Succeeded

\* a diff with no header at all has been refused
C19_WitnessMissing ==
  /\ DiffCalled
  /\ LET textLines == Split(last.args.diff)
     IN NoHunkHeader(textLines) /\ ~BadHunkHeader(textLines) /\ Len(textLines) = 2
  /\ ~Succeeded

----------------------------------------------------------------------------
\* the hunks are one hunk with oldStart = 0 and oldCount = 0 that has
\* insertion lines only
PureInsertionAtTop(hunks) ==
  /\ Len(hunks) = 1
  /\ hunks[1].oldStart = 0
  /\ hunks[1].oldCount = 0
  /\ Len(hunks[1].lines) > 0
  /\ \A k \in 1..Len(hunks[1].lines) : hunks[1].lines[k].kind = "insert"

\* C20: a hunk with oldStart = 0 and oldCount = 0 that contains only
\* insertion lines applies to an empty document: the call succeeds and the
\* inserted lines are the first lines of the stored file.
C20_InsertIntoEmptyFile ==
  (DiffCalled /\ last.before[last.args.path] = <<>>) =>
     LET parsed == DiffParse
     IN (parsed.ok /\ PureInsertionAtTop(parsed.value)) =>
          LET inserted == TextsOf(parsed.value[1], {"insert"})
          IN /\ Succeeded
             /\ Len(ResultLines) >= Len(inserted)
             /\ SubSeq(ResultLines, 1, Len(inserted)) = inserted

\* a line has been inserted into an empty file
C20_Witness ==
  /\ DiffCalled /\ Succeeded
  /\ last.before[last.args.path] = <<>>
  /\ PureInsertionAtTop(DiffParse.value)
  /\ files[last.args.path] = <<"b", NL>>

----------------------------------------------------------------------------
\* the lines of seq from line from to line to, each of them a line seq has
LinesOf(seq, from, to) == [k \in 1..(to - from + 1) |-> seq[from + k - 1]]

\* C21: in the change preview of a successful patch with line range
\* start..end on a resulting document of L lines, context_before is exactly
\* the min(2, start-1) lines immediately before line start and context_after
\* exactly the min(2, L-end) lines immediately after line end, in document
\* order; no line outside 1..L is read.
C21_PreviewContext ==
  (IsPatch /\ Succeeded) =>
     LET result == ResultLines
         L == Len(result)
         start == RangeStart
         end == RangeEnd
         nBefore == Min(2, start - 1)
         nAfter == Min(2, L - end)
     IN /\ nBefore >= 0 /\ start - 1 <= L
        /\ nAfter >= 0 /\ end >= 0
        /\ Preview.context_before = LinesOf(result, start - nBefore, start - 1)
        /\ Preview.context_after = LinesOf(result, end + 1, end + nAfter)

\* a patch in the middle of a long document has two lines of context on
\* either side
C21_Witness ==
  /\ IsPatch /\ Succeeded
  /\ RangeStart = 3
  /\ Len(ResultLines) >= RangeEnd + 2
  /\ Len(Preview.context_before) = 2
  /\ Len(Preview.context_after) = 2
  /\ Preview.context_before[1] # Preview.context_before[2]

\* a patch of the first line has no context before it, and one of the last
\* line none after it
C21_WitnessBoundary ==
  /\ IsPatch /\ Succeeded
  /\ RangeStart = 1
  /\ RangeEnd = Len(ResultLines)
  /\ Preview.context_before = <<>>
  /\ Preview.context_after = <<>>

----------------------------------------------------------------------------
\* a patch-content or append-content call with create_if_missing=false on a
\* path that is not there
RefusedCreation ==
  /\ last.op \in {"patch-content", "patch-content-line", "append-content"}
  /\ ~fileExists(last.before, last.args.path)
  /\ last.args.create_if_missing = FALSE

\* C22: patch-content and append-content called with create_if_missing=false
\* on a path that does not exist fail with a 'does not exist' error and do
\* not create the file; the vault is unchanged.
C22_MissingFileNotCreated ==
  RefusedCreation =>
     /\ ~Succeeded
     /\ last.response.error.text = "File does not exist"
     /\ last.response.error.path = last.args.path
     /\ ~fileExists(files, last.args.path)
     /\ VaultUnchanged

\* an append to a missing journal note that the template could have started
\* has been refused
C22_Witness ==
  /\ RefusedCreation
  /\ last.op = "append-content"
  /\ last.args.path = JournalPath
  /\ config.present /\ fileExists(last.before, TemplatePath)
  /\ ~Succeeded

\* a patch of a missing note has been refused
C22_WitnessPatch ==
  /\ RefusedCreation
  /\ last.op = "patch-content"
  /\ last.args.anchor_type = "frontmatter"
  /\ ~Succeeded

----------------------------------------------------------------------------
\* a create-note call on a path that is there
CreatingOverExisting ==
  /\ last.op = "create-note"
  /\ fileExists(last.before, last.args.path)

\* C23: create-note on a path that already exists fails with 'already
\* exists' and leaves the file content unchanged unless overwrite=true is
\* given, in which case the file content becomes exactly the supplied content.
C23_CreateOverExisting ==
  /\ (CreatingOverExisting /\ ~last.args.overwrite) =>
        /\ ~Succeeded
        /\ last.response.error.text = "File already exists. Set overwrite=true to replace it."
        /\ files[last.args.path] = last.before[last.args.path]
        /\ VaultUnchanged
  /\ (CreatingOverExisting /\ last.args.overwrite) =>
        /\ Succeeded
        /\ files[last.args.path] = last.args.content
        /\ \A p \in DOMAIN last.before \ {last.args.path} :
              fileExists(files, p) /\ files[p] = last.before[p]

\* a create-note with other content has been refused on a note that is there
C23_Witness ==
  /\ CreatingOverExisting /\ ~last.args.overwrite
  /\ last.args.content # last.before[last.args.path]
  /\ ~Succeeded

\* a note has been overwritten with other content
C23_WitnessOverwrite ==
  /\ CreatingOverExisting /\ last.args.overwrite
  /\ last.args.content # last.before[last.args.path]
  /\ Succeeded

----------------------------------------------------------------------------
\* the two invocations are patch-content calls (on the same file)
TwoPatches ==
  /\ DOMAIN calls = 1..2
  /\ \A i \in 1..2 : calls[i].op = "patch-content"
  /\ calls[1].args.path = calls[2].args.path

\* the invocations that have written the file
Writers == {i \in DOMAIN calls : calls[i].wroteAt > 0}

\* the invocation that has written last
LastWriter == CHOOSE i \in Writers : \A j \in Writers : calls[j].wroteAt <= calls[i].wroteAt

\* C24: when two patch-content invocations on the same file interleave,
\* nothing arbitrates between them: each computes its result from the content
\* it read, and the stored file is the complete output of whichever
\* invocation has written last, never a mixture of the two outputs.
C24_LastWriterWins ==
  TwoPatches =>
     /\ \A i \in Writers :
           /\ calls[i].success
           /\ calls[i].written = patchDispatch(calls[i].content, calls[i].args).content
     /\ Writers # {} => files[calls[1].args.path] = calls[LastWriter].written

\* both invocations have read the document before either wrote: the file
\* ends as the output of the second writer and the change of the first is lost
C24_Witness ==
  /\ TwoPatches
  /\ Writers = {1, 2}
  /\ calls[1].content = calls[2].content
  /\ calls[1].written # calls[2].written
  /\ calls[1].wroteAt = 1
  /\ files[NotePath] = calls[2].written
  /\ \E k \in 1..Len(Split(calls[1].written)) :
        /\ Split(calls[1].written)[k] = <<"b">>
        /\ \A j \in 1..Len(Split(files[NotePath])) : Split(files[NotePath])[j] # <<"b">>

----------------------------------------------------------------------------
\* the two invocations are create-note calls without overwrite on the same
\* path, and the path was not there when they started: it is still missing,
\* or one of them has written it (a call without overwrite writes only where
\* its check found nothing, and no file is ever removed)
TwoCreates ==
  /\ DOMAIN calls = 1..2
  /\ \A i \in 1..2 : calls[i].op = "create-note" /\ ~calls[i].args.overwrite
  /\ calls[1].args.path = calls[2].args.path
  /\ ~fileExists(files, calls[1].args.path) \/ Writers # {}

\* C30: when two create-note calls without overwrite on the same
\* non-existent path interleave at their await points (existence check, then
\* write), at most one of them returns success and the content written by
\* the successful call is never replaced by the other call.
C30_AtMostOneCreates ==
  TwoCreates =>
     /\ ~(calls[1].success /\ calls[2].success)
     /\ \A i \in Writers : files[calls[i].args.path] = calls[i].written

\* what the handler does: a call fails only when its own check found the
\* file; when both checks ran before either write both calls succeed and the
\* file holds the content of the second writer
C30_BothCanCreate ==
  TwoCreates =>
     /\ \A i \in 1..2 :
           (calls[i].pc = "done" /\ ~calls[i].success) =>
              /\ Writers # {}
              /\ calls[i].error = "File already exists. Set overwrite=true to replace it."
     /\ \A i \in 1..2 : (calls[i].pc = "checked" /\ ~calls[i].exists) => ENABLED CreateWrite(i)
     /\ Writers # {} => files[calls[1].args.path] = calls[LastWriter].written

\* both calls have succeeded and the content of the first is gone
C30_RaceWitness ==
  /\ TwoCreates
  /\ calls[1].success /\ calls[2].success
  /\ calls[1].wroteAt = 1
  /\ calls[1].written # calls[2].written
  /\ files[NotePath] = calls[2].written

----------------------------------------------------------------------------
\* the content a file has, the empty content for a file that is not there
StoredOrEmpty(f, path) == IF fileExists(f, path) THEN f[path] ELSE <<>>

\* the separator of the claim: a single newline exactly when newline is not
\* false, old is non-empty and old does not already end with a newline
Separator(old, newline) ==
  IF newline # FALSE /\ old # <<>> /\ old[Len(old)] # NL THEN <<NL>> ELSE <<>>

\* the path is a journal path that does not exist: it starts from the template
NewJournalFile(call) ==
  /\ ~fileExists(call.before, call.args.path)
  /\ config.present
  /\ journalPathMatch(config.journalPathTemplate, call.args.path) # <<>>

\* the successful appends to the path among the first n calls, in call order
RECURSIVE AppendedTo(_, _)
AppendedTo(path, n) ==
  IF n = 0 THEN <<>>
  ELSE AppendedTo(path, n - 1)
         \o (IF calls[n].args.path = path /\ calls[n].response.success THEN <<n>> ELSE <<>>)

\* the string has the part at position k
HasPartAt(s, k, part) ==
  /\ k >= 1
  /\ k + Len(part) - 1 <= Len(s)
  /\ SubSeq(s, k, k + Len(part) - 1) = part

\* the contents appended by the calls numbered in order stand in the string
\* one after the other from position k on, a newline at most between them
RECURSIVE InCallOrder(_, _, _, _)
InCallOrder(s, k, order, j) ==
  IF j > Len(order) THEN k = Len(s) + 1
  ELSE LET content == calls[order[j]].args.content
       IN \/ HasPartAt(s, k, content) /\ InCallOrder(s, k + Len(content), order, j + 1)
          \/ /\ HasPartAt(s, k, <<NL>> \o content)
             /\ InCallOrder(s, k + 1 + Len(content), order, j + 1)

\* C25: append-content stores old + sep + content, where old is the current
\* file content (empty for a new non-journal file) and sep is a single
\* newline exactly when newline is not false, old is non-empty and old does
\* not already end with a newline; after any sequence of appends the file
\* holds the appended contents in call order.
C25_AppendInOrder ==
  /\ \A n \in 1..Len(calls) :
        LET call == calls[n]
            old == StoredOrEmpty(call.before, call.args.path)
            after == IF n < Len(calls) THEN calls[n + 1].before ELSE files
        IN (/\ call.op = "append-content"
            /\ fileExists(call.before, call.args.path) \/ call.args.create_if_missing
            /\ ~NewJournalFile(call))
           => /\ call.response.success
              /\ after[call.args.path] = old \o Separator(old, call.args.newline)
                                             \o call.args.content
  /\ \A path \in {NotePath, JournalPath} :
        LET order == AppendedTo(path, Len(calls))
        IN order # <<>> =>
             LET start == getOrInitializeContent(calls[order[1]].before, path, config).value
             IN /\ fileExists(files, path)
                /\ HasPartAt(files[path], 1, start)
                /\ InCallOrder(files[path], Len(start) + 1, order, 1)

\* two contents have been appended to a note that did not end with a
\* newline, the second without a separator
C25_Witness ==
  /\ Len(calls) = 2
  /\ fileExists(calls[1].before, NotePath)
  /\ calls[1].before[NotePath] = PlainA
  /\ calls[1].args = [path |-> NotePath, content |-> <<"b", NL>>, newline |-> TRUE,
                      create_if_missing |-> TRUE]
  /\ calls[2].args.path = NotePath /\ calls[2].args.content = <<"b">>
  /\ calls[2].args.newline
  /\ files[NotePath] = <<"a", NL, "b", NL, "b">>

----------------------------------------------------------------------------
\* C29: a move-note call that returns success=false leaves the vault
\* unchanged: the source file and the destination file both exist or not,
\* and hold the same content, as before the call, also with overwrite=true,
\* an existing destination and a missing source, and with the source path
\* equal to the destination path.
C29_FailedMoveUnchanged ==
  (last.op = "move-note" /\ ~Succeeded) =>
     \A path \in {last.args.source_path, last.args.destination_path} :
        /\ fileExists(files, path) = fileExists(last.before, path)
        /\ fileExists(files, path) => files[path] = last.before[path]

----------------------------------------------------------------------------
\* C28: heading-anchored replace is idempotent: for every document with a
\* matching heading and every new content, applying the same replace patch
\* to the output of the first application returns that output unchanged.
C28_HeadingReplaceIdempotent ==
  (/\ last.op = "patch-content"
   /\ Patched("heading")
   /\ last.args.position = "replace")
  => LET again == patchAtHeading(files[last.args.path], last.args.anchor_value,
                                 last.args.content, "replace")
     IN again.ok /\ again.content = files[last.args.path]

----------------------------------------------------------------------------
\* the path is the configured journal path template with a YYYY-MM-DD date
\* in the place of {{date}}
MatchesTemplate(path) ==
  /\ config.present
  /\ LET template == config.journalPathTemplate
         dateAt == FirstIndex(template, LAMBDA seg : seg = DateToken)
     IN /\ dateAt # 0
        /\ Len(path) = Len(template)
        /\ path[dateAt] \in Dates
        /\ \A k \in 1..Len(template) : k # dateAt => path[k] = template[k]

\* the date in a path that matches the template
DateIn(path) ==
  path[FirstIndex(config.journalPathTemplate, LAMBDA seg : seg = DateToken)]

\* the content the claim has a call on the path start from
StartOf(f, path) ==
  IF fileExists(f, path) THEN f[path]
  ELSE IF MatchesTemplate(path)
  THEN replaceDate(f[config.journalFileTemplate], DateIn(path))
  ELSE <<>>

\* C27: for a path that does not exist, patch-content and append-content
\* start from the journal template with every {{date}} replaced by the date
\* in the path exactly when the path matches the configured journal path
\* template with a YYYY-MM-DD date, and from the empty document otherwise;
\* for a path that exists they start from the stored content and never read
\* the template.
C27_StartsFromTemplate ==
  (/\ last.op \in {"append-content", "patch-content"}
   /\ fileExists(last.before, last.args.path) \/ last.args.create_if_missing
   /\ \/ fileExists(last.before, last.args.path)
      \/ ~MatchesTemplate(last.args.path)
      \/ fileExists(last.before, config.journalFileTemplate))
  => LET start == StartOf(last.before, last.args.path)
         patched == patchDispatch(start, last.args)
     IN IF last.op = "append-content"
        THEN /\ Succeeded
             /\ files[last.args.path] =
                  appendedContent(start, last.args.content, last.args.newline)
        ELSE IF patched.ok
        THEN Succeeded /\ files[last.args.path] = patched.content
        ELSE ~Succeeded /\ files = last.before

----------------------------------------------------------------------------
\* the lines of the entry a log-journal-entry call logs
EntryLines(call) ==
  Split(formatJournalEntry([timestamp |-> call.args.now,
                            activityType |-> call.args.activity_type,
                            summary |-> call.args.summary,
                            keyTopics |-> call.args.key_topics,
                            outputs |-> call.args.outputs,
                            project |-> call.args.project]))

\* the line of the configured activity section, 0 without one
SectionLine(lines) ==
  FirstIndex(lines, LAMBDA l : Trim(l) = config.journalActivitySection)

\* the entries of the successful calls from call j on stand in the lines from
\* line k on, whole and in the order of the calls
RECURSIVE InLogOrder(_, _, _)
InLogOrder(lines, k, j) ==
  IF j > Len(calls) THEN TRUE
  ELSE IF ~calls[j].response.success THEN InLogOrder(lines, k, j + 1)
  ELSE \E p \in k..Len(lines) :
          /\ HasPartAt(lines, p, EntryLines(calls[j]))
          /\ InLogOrder(lines, p + Len(EntryLines(calls[j])), j + 1)

\* C26: log-journal-entry places each new entry after the entries already
\* present under the configured activity section and before the next heading
\* of the same or a higher level, leaving every existing line unchanged;
\* after any sequence of log-journal-entry calls on the same day the entries
\* appear under the section in the order in which they were logged.
C26_EntriesInLogOrder ==
  /\ \A n \in 1..Len(calls) :
        LET call == calls[n]
            path == call.response.data.journal_path
            old == Split(getOrInitializeContent(call.before, path, config).value)
            after == IF n < Len(calls) THEN calls[n + 1].before ELSE files
            new == Split(after[path])
            section == SectionLine(old)
        IN (call.op = "log-journal-entry" /\ call.response.success /\ section # 0)
           => \E e \in section..Len(old) :
                 /\ new = SubSeq(old, 1, e) \o EntryLines(call) \o SubSeq(old, e + 1, Len(old))
                 /\ e < Len(old) =>
                      isNextSection(old[e + 1], sectionLevelOf(config.journalActivitySection))
  /\ (Len(calls) > 0 /\ last.op = "log-journal-entry" /\ Succeeded)
     => LET lines == Split(files[last.response.data.journal_path])
        IN /\ SectionLine(lines) # 0
           /\ InLogOrder(lines, SectionLine(lines) + 1, 1)

====
